---- MODULE Spec2Model ----
(***************************************************************************)
(* The SundAI merch shop (src/main.py, src/printful_client.py): the        *)
(* cookie-held session (cart, pending checkout order), the process-wide    *)
(* catalog cache, the order-cost computation and the checkout handlers.    *)
(*                                                                         *)
(* Money.  Prices held in a cart or in the catalog are integers in mills   *)
(* (1/1000 USD): a client may send any float as variant_price, so sub-cent *)
(* prices exist.  Un-rounded sums are kept in micro-dollars (1/1000000     *)
(* USD), which holds price * quantity * 0.085 exactly.  Everything that    *)
(* went through round(x, 2) is an integer number of cents.                 *)
(*                                                                         *)
(* Optional values.  An absent identifier (Python None) is NoId; an        *)
(* optional price, record or list element is a sequence of length 0 or 1.  *)
(***************************************************************************)
EXTENDS Integers, Sequences, FiniteSets, TLC

\* ---------------------------------------------------------------- bounds
MaxItems == 2      \* cart entries held by all sessions together
MaxPay == 2        \* payment sessions the processor opens
MaxOrders == 2     \* orders the fulfillment provider accepts

\* ------------------------------------------------------- program constants
NoId == 0                   \* Optional[int] = None; ids of the provider are positive
FallbackShipping == 999     \* 9.99, in cents
TaxRatePerMille == 85       \* ESTIMATED_TAX_RATE, default "0.085"
MicroPerMill == 1000         \* micro-dollars in a mill: price * 0.085 stays exact
MicroPerCent == 10000        \* micro-dollars in a cent: round(x, 2) is RoundDiv(x, MicroPerCent)

\* The clients (browsers, each with its own session cookie).
Sessions == {1, 2}

\* ---------------------------------------------------------------- helpers
Max(a, b) == IF a >= b THEN a ELSE b

Abs(a) == IF a >= 0 THEN a ELSE 0 - a

\* Python's `x or y` on optional identifiers (None and 0 are both falsy).
Or(a, b) == IF a # NoId THEN a ELSE b

\* round(n / d) to the nearest integer, d > 0; an exact half goes to the even
\* neighbour (round() on a float resolves a decimal half by the float's binary
\* expansion; the price sets below produce no exact half on the estimated path).
RoundDiv(n, d) ==
    LET q == n \div d
        r == n % d
    IN  IF 2 * r < d THEN q
        ELSE IF 2 * r > d THEN q + 1
        ELSE IF q % 2 = 0 THEN q ELSE q + 1

\* Index of the first element of seq satisfying P, 0 when there is none
\* (next((x for x in seq if P(x)), None), or a for loop with break).
FirstIndex(seq, P(_)) ==
    LET idx == {i \in 1..Len(seq) : P(seq[i])}
    IN  IF idx = {} THEN 0 ELSE CHOOSE i \in idx : \A j \in idx : i <= j

RECURSIVE SumLines(_)
\* sum(entry["unit_price"] * entry["quantity"] for entry in cart_entries)
SumLines(entries) ==
    IF entries = <<>> THEN 0
    ELSE entries[1].unit_price * entries[1].quantity + SumLines(Tail(entries))

RECURSIVE SumQuantity(_)
\* sum(entry["quantity"] for entry in cart_entries)
SumQuantity(entries) ==
    IF entries = <<>> THEN 0
    ELSE entries[1].quantity + SumQuantity(Tail(entries))

RECURSIVE SelectSeqBy(_, _)
\* the elements of seq whose flag in keep is TRUE, in order
SelectSeqBy(seq, keep) ==
    IF seq = <<>> THEN <<>>
    ELSE (IF keep[1] THEN <<seq[1]>> ELSE <<>>) \o SelectSeqBy(Tail(seq), Tail(keep))

\* ---------------------------------------------------------------- catalog
\* A variant record of a normalized product: "id" is the sync-variant id,
\* "variant_id" the catalog variant id (absent on plain catalog products).
Variant(id, variant_id, name) == [id |-> id, variant_id |-> variant_id, name |-> name]

\* Product 1: two sizes.  Product 2: one variant without a catalog variant
\* id and without a retail price (price 0.0).  Product 3: no variants at all.
CatalogA ==
    << [id |-> 1, price |-> 2000, sizes |-> <<"S", "M">>,
        variants |-> <<Variant(11, 101, "S"), Variant(12, 102, "M")>>],
       [id |-> 2, price |-> 0, sizes |-> <<"One Size">>,
        variants |-> <<Variant(21, NoId, "One Size")>>],
       [id |-> 3, price |-> 0, sizes |-> <<"One Size">>, variants |-> <<>>] >>

\* The store after an upstream change: size S of product 1 was replaced by
\* a new variant L, products 2 and 3 were withdrawn.
CatalogB ==
    << [id |-> 1, price |-> 2000, sizes |-> <<"M", "L">>,
        variants |-> <<Variant(12, 102, "M"), Variant(13, 103, "L")>>] >>

\* The stores the provider can hold.
UpstreamCatalogs == {CatalogA, CatalogB}

\* get_products_from_printful(): the provider's store, normalized; an empty
\* list when the request fails.
get_products_from_printful(store, request_ok) == IF request_ok THEN store ELSE <<>>

\* The CartItem bodies a client posts (pydantic model CartItem); the server
\* fills in variant_id and sync_variant_id itself.
CartItems(product_ids, sizes, quantities, prices) ==
    [ product_id : product_ids, size : sizes, quantity : quantities, variant_price : prices ]

Quantities == {1, 2}
\* variant_price sent by the client: absent, or 0.054 USD
PriceChoices == {<<>>, <<54>>}

\* next((p for p in products_cache if p.id == product_id), None)
FindProduct(cache, product_id) ==
    LET i == FirstIndex(cache, LAMBDA p : p.id = product_id)
    IN  IF i = 0 THEN <<>> ELSE <<cache[i]>>

\* if not products_cache: products_cache = get_products_from_printful()
LazyCache(cache, fetched) == IF cache = <<>> THEN fetched ELSE cache

\* -------------------------------------------------- price/variant resolver
\* A resolver that looks at the size label before the identifiers.
MatchVariantBySizeFirst(variants, cart_item) ==
    LET bySize == FirstIndex(variants, LAMBDA v : v.name = cart_item.size)
        bySync == IF cart_item.sync_variant_id # NoId
                  THEN FirstIndex(variants, LAMBDA v : v.id = cart_item.sync_variant_id)
                  ELSE 0
    IN  IF bySize # 0 THEN bySize ELSE bySync

\* The three matching passes of compute_order_details over product.variants:
\* by sync-variant id, then by variant id, then by size label.  Index of the
\* matched variant, 0 when none matches.
MatchVariant(variants, cart_item) ==
    LET bySync == IF cart_item.sync_variant_id # NoId
                  THEN FirstIndex(variants, LAMBDA v : v.id = cart_item.sync_variant_id)
                  ELSE 0
        byId   == IF bySync = 0 /\ cart_item.variant_id # NoId
                  THEN FirstIndex(variants,
                         LAMBDA v : /\ Or(v.variant_id, v.id) # NoId
                                    /\ Or(v.variant_id, v.id) = cart_item.variant_id)
                  ELSE 0
        bySize == FirstIndex(variants, LAMBDA v : v.name = cart_item.size)
    IN  IF bySync # 0 THEN bySync ELSE IF byId # 0 THEN byId ELSE bySize

\* The end of one iteration of the loop `for cart_item in cart` of
\* compute_order_details, from the identifiers the matching left: the cart
\* item as the loop leaves it (it is mutated in place), whether the iteration
\* reached printful_items.append, and what it appended.
ResolvedItem(cart_item, matched, variant_id, sync_variant_id, unit_price, quantity) ==
    [ cart_item |-> [cart_item EXCEPT !.variant_id = variant_id,
                                      !.sync_variant_id = sync_variant_id],
      matched   |-> matched,
      included  |-> variant_id # NoId /\ unit_price # <<>>,
      line      |-> IF variant_id # NoId /\ unit_price # <<>>
                    THEN unit_price[1] * quantity * MicroPerMill ELSE 0,
      printful_item |->
          [ quantity |-> quantity,
            sync_variant_id |-> sync_variant_id,
            variant_id |-> IF sync_variant_id # NoId THEN NoId ELSE variant_id,
            source |-> IF sync_variant_id # NoId THEN "sync" ELSE "" ],
      cart_entry |->
          [ product_id |-> cart_item.product_id,
            variant_id |-> variant_id,
            quantity   |-> quantity,
            unit_price |-> IF variant_id # NoId /\ unit_price # <<>>
                           THEN RoundDiv(unit_price[1], 10) ELSE 0,
            size       |-> cart_item.size ] ]

\* unit_price = cart_item.get("variant_price"), else product.price
UnitPrice(cart_item, product) ==
    IF cart_item.variant_price # <<>> THEN cart_item.variant_price
    ELSE IF product # <<>> THEN <<product[1].price>>
    ELSE <<>>

\* int(cart_item.get("quantity", 1) or 1)
Quantity(cart_item) == IF cart_item.quantity = 0 THEN 1 ELSE cart_item.quantity

\* The iteration once the matching passes gave variant number m of the
\* product (0: no variant matched, the item keeps the identifiers it has).
ResolveMatched(cart_item, product, m) ==
    IF m # 0
    THEN ResolvedItem(cart_item, TRUE,
                      Or(product[1].variants[m].variant_id, product[1].variants[m].id),
                      product[1].variants[m].id,
                      UnitPrice(cart_item, product), Quantity(cart_item))
    ELSE ResolvedItem(cart_item, FALSE, cart_item.variant_id, cart_item.sync_variant_id,
                      UnitPrice(cart_item, product), Quantity(cart_item))

ResolveInProduct(cart_item, product) ==
    ResolveMatched(cart_item, product,
                   IF product = <<>> THEN 0
                   ELSE IF product[1].variants = <<>> THEN 0
                   ELSE MatchVariant(product[1].variants, cart_item))

\* One iteration of the loop `for cart_item in cart` of compute_order_details.
ResolveItem(cache, cart_item) ==
    ResolveInProduct(cart_item, FindProduct(cache, cart_item.product_id))

\* ------------------------------------------------------ fulfillment client
\* A shipping-rate answer: the request raised, or a list of rates (maybe empty).
Rate(id, name, rate) == [id |-> id, name |-> name, rate |-> rate]

RatesResponses ==
    { [raised |-> TRUE,  result |-> <<>>],
      [raised |-> FALSE, result |-> <<>>],
      [raised |-> FALSE, result |-> <<Rate("EXPRESS", "Express", 1250),
                                      Rate("STANDARD", "Flat Rate", 499)>>] }

\* What POST /orders/estimate would answer: the request fails, or a result
\* whose "costs" block (amounts in cents) holds some of the cost fields.
QuoteAnswers ==
    { [raised |-> TRUE,  costs |-> <<>>],
      [raised |-> FALSE, costs |-> <<>>],
      [raised |-> FALSE, costs |-> [subtotal |-> 360, shipping |-> 499, tax |-> 31, total |-> 890]] }

\* The keyword arguments compute_order_details passes to estimate_costs.
EstimateCostsCallArgs == {"recipient", "items", "shipping", "retail_costs"}

\* The parameters PrintfulClient.estimate_costs declares (besides self).
EstimateCostsParams == {"items"}

\* printful_client.estimate_costs(**kwargs): a keyword the method does not
\* declare raises TypeError before any request is sent; otherwise the request
\* goes out and the provider's answer comes back.
PrintfulClient_estimate_costs(kwargs, answer) ==
    IF kwargs \subseteq EstimateCostsParams
    THEN [raised |-> answer.raised, issued |-> TRUE, costs |-> answer.costs]
    ELSE [raised |-> TRUE, issued |-> FALSE, costs |-> <<>>]

\* cost_dict.get(key, default)
Get(cost_dict, key, default) == IF key \in DOMAIN cost_dict THEN cost_dict[key] ELSE default

\* ----------------------------------------------------- order cost reconciler
\* The per-line entries after the scaling loop: every unit price times
\* desired_subtotal / current_line_total when that total is positive, else
\* the even share desired_subtotal / total_quantity (amounts in cents).
Rescale(cart_entries, desired_subtotal, current_line_total, total_quantity) ==
    IF current_line_total > 0
    THEN [i \in 1..Len(cart_entries) |-> [cart_entries[i] EXCEPT
             !.unit_price = RoundDiv(@ * desired_subtotal, current_line_total)]]
    ELSE IF total_quantity > 0
    THEN [i \in 1..Len(cart_entries) |-> [cart_entries[i] EXCEPT
             !.unit_price = RoundDiv(desired_subtotal, total_quantity)]]
    ELSE cart_entries

\* if abs(diff) >= 0.01: the last entry's unit price takes diff / quantity.
AdjustLast(scaled, diff, q) ==
    IF Abs(diff) >= 1
    THEN [scaled EXCEPT ![Len(scaled)].unit_price = RoundDiv(@ * q + diff, q)]
    ELSE scaled

\* diff = round(desired_subtotal - adjusted_line_total, 2), where
\* adjusted_line_total stays 0.0 when neither scaling loop ran.
Adjust(scaled, desired_subtotal, ran) ==
    AdjustLast(scaled,
               desired_subtotal - (IF ran THEN SumLines(scaled) ELSE 0),
               Max(scaled[Len(scaled)].quantity, 1))

RescaleAndAdjust(cart_entries, desired_subtotal, current_line_total, total_quantity) ==
    Adjust(Rescale(cart_entries, desired_subtotal, current_line_total, total_quantity),
           desired_subtotal,
           current_line_total > 0 \/ total_quantity > 0)

\* The redistribution of the provider subtotal over the per-line entries
\* (unit prices and desired_subtotal in cents).
Reallocate(cart_entries, desired_subtotal) ==
    IF desired_subtotal > 0 /\ cart_entries # <<>>
    THEN RescaleAndAdjust(cart_entries, desired_subtotal,
                          SumLines(cart_entries), SumQuantity(cart_entries))
    ELSE cart_entries

Breakdown(subtotal, shipping_cost, tax_amount, total, tax_note, cart_entries) ==
    [ subtotal |-> subtotal, shipping_cost |-> shipping_cost, tax_amount |-> tax_amount,
      total |-> total, tax_note |-> tax_note, cart_entries |-> cart_entries ]

\* total_cost = round(printful_costs.get("total", subtotal + shipping_cost + tax_amount), 2)
ReconcileTotal(printful_costs, subtotal, shipping_cost, tax_amount, cart_entries) ==
    Breakdown(subtotal, shipping_cost, tax_amount,
              Get(printful_costs, "total", subtotal + shipping_cost + tax_amount),
              "Printful", Reallocate(cart_entries, subtotal))

\* The branch `if printful_costs:` of compute_order_details: the provider's
\* numbers replace the local ones field by field.  retail_subtotal and
\* tax_amount come in micro-dollars, shipping_cost in cents; the result is
\* in cents.
Reconcile(printful_costs, retail_subtotal, shipping_cost, tax_amount, cart_entries) ==
    ReconcileTotal(printful_costs,
        Get(printful_costs, "subtotal", RoundDiv(retail_subtotal, MicroPerCent)),
        Get(printful_costs, "shipping", shipping_cost),
        Get(printful_costs, "tax",
            Get(printful_costs, "vat", RoundDiv(tax_amount, MicroPerCent))),
        cart_entries)

\* LocalEstimate with the total taken as the sum of the rounded parts.
LocalEstimateSumOfRounded(retail_subtotal, shipping_cost, tax_amount, cart_entries) ==
    Breakdown(RoundDiv(retail_subtotal, MicroPerCent),
              shipping_cost,
              RoundDiv(tax_amount, MicroPerCent),
              RoundDiv(retail_subtotal, MicroPerCent) + shipping_cost
                  + RoundDiv(tax_amount, MicroPerCent),
              "Estimated", cart_entries)

\* The branch `else:` of the same test: the local numbers, each rounded.
LocalEstimate(retail_subtotal, shipping_cost, tax_amount, cart_entries) ==
    Breakdown(RoundDiv(retail_subtotal, MicroPerCent),
              shipping_cost,
              RoundDiv(tax_amount, MicroPerCent),
              RoundDiv(retail_subtotal + shipping_cost * MicroPerCent + tax_amount,
                       MicroPerCent),
              "Estimated", cart_entries)

RECURSIVE SumSeq(_)
SumSeq(seq) == IF seq = <<>> THEN 0 ELSE seq[1] + SumSeq(Tail(seq))

\* tax_amount = retail_subtotal * ESTIMATED_TAX_RATE, in micro-dollars
TaxAmount(retail_subtotal) == (retail_subtotal \div MicroPerMill) * TaxRatePerMille

\* ShippingStep selecting the last returned rate instead of the first.
ShippingStepLastRate(shipping_rates) ==
    IF shipping_rates = <<>>
    THEN [ shipping_rates |-> <<>>, shipping_rate |-> <<>>,
           shipping_cost |-> FallbackShipping,
           shipping_note |-> <<"Fallback estimate">>,
           shipping_method_id |-> <<>> ]
    ELSE [ shipping_rates |-> shipping_rates,
           shipping_rate |-> <<shipping_rates[Len(shipping_rates)]>>,
           shipping_cost |-> shipping_rates[Len(shipping_rates)].rate,
           shipping_note |-> <<shipping_rates[Len(shipping_rates)].name, "via Printful">>,
           shipping_method_id |-> <<shipping_rates[Len(shipping_rates)].id>> ]

\* The shipping step of compute_order_details: the rates kept, the one
\* selected, its cost in cents, the note and the shipping method id.
ShippingStep(shipping_rates) ==
    IF shipping_rates = <<>>
    THEN [ shipping_rates |-> <<>>, shipping_rate |-> <<>>,
           shipping_cost |-> FallbackShipping,
           shipping_note |-> <<"Fallback estimate">>,
           shipping_method_id |-> <<>> ]
    ELSE [ shipping_rates |-> shipping_rates, shipping_rate |-> <<shipping_rates[1]>>,
           shipping_cost |-> shipping_rates[1].rate,
           shipping_note |-> <<shipping_rates[1].name, "via Printful">>,
           shipping_method_id |-> <<shipping_rates[1].id>> ]

\* What the resolving loop left, read off its per-item results.
CartAfter(res) == [i \in 1..Len(res) |-> res[i].cart_item]

Included(res) == [i \in 1..Len(res) |-> res[i].included]

PrintfulItems(res) == SelectSeqBy([i \in 1..Len(res) |-> res[i].printful_item], Included(res))

CartEntries(res) == SelectSeqBy([i \in 1..Len(res) |-> res[i].cart_entry], Included(res))

RetailSubtotal(res) == SumSeq([i \in 1..Len(res) |-> res[i].line])

\* shipping_items: one per cart item that now has a truthy variant_id
ShippingItems(res) ==
    SelectSeqBy([i \in 1..Len(res) |-> [ variant_id |-> res[i].cart_item.variant_id,
                                         quantity |-> res[i].cart_item.quantity,
                                         value |-> res[i].cart_item.variant_price ]],
                [i \in 1..Len(res) |-> res[i].cart_item.variant_id # NoId])

\* A compute_order_details that asks for shipping rates before it checks
\* that an item is left.
FailureAfterRates(status, detail, cart, calls) ==
    [ status |-> status, detail |-> detail, cart |-> cart,
      calls |-> calls \o <<"shipping_rates">> ]

\* The value a failed call of compute_order_details leaves behind.
Failure(status, detail, cart, calls) ==
    [ status |-> status, detail |-> detail, cart |-> cart, calls |-> calls ]

\* The dictionary compute_order_details returns (with the cart as mutated,
\* the provider requests issued and the provider's answers alongside).
OrderDetails(res, ship, estimate, printful_costs, costs, rates_response, quote) ==
    [ status |-> 200, detail |-> "", cart |-> CartAfter(res),
      calls |-> <<"shipping_rates">>
                \o (IF estimate.issued THEN <<"estimate_costs">> ELSE <<>>),
      subtotal |-> costs.subtotal,
      shipping_cost |-> costs.shipping_cost,
      shipping_note |-> IF DOMAIN printful_costs # {} /\ ship.shipping_rates = <<>>
                        THEN <<"Printful rate">> ELSE ship.shipping_note,
      tax_amount |-> costs.tax_amount,
      tax_note |-> costs.tax_note,
      total |-> costs.total,
      cost_source |-> IF DOMAIN printful_costs # {} THEN "printful" ELSE "estimated",
      retail_subtotal |-> RoundDiv(RetailSubtotal(res), MicroPerCent),
      shipping_method_id |-> ship.shipping_method_id,
      selected_shipping_rate |-> ship.shipping_rate,
      shipping_items |-> ShippingItems(res),
      printful_items |-> PrintfulItems(res),
      cart_entries |-> costs.cart_entries,
      matched |-> [i \in 1..Len(res) |-> res[i].matched],
      included |-> Included(res),
      rates_response |-> rates_response,
      quote |-> quote ]

\* if printful_costs: ... else: ...
Costed(res, ship, estimate, printful_costs, rates_response, quote) ==
    OrderDetails(res, ship, estimate, printful_costs,
        IF DOMAIN printful_costs # {}
        THEN Reconcile(printful_costs, RetailSubtotal(res), ship.shipping_cost,
                       TaxAmount(RetailSubtotal(res)), CartEntries(res))
        ELSE LocalEstimate(RetailSubtotal(res), ship.shipping_cost,
                           TaxAmount(RetailSubtotal(res)), CartEntries(res)),
        rates_response, quote)

\* try: estimate_response = printful_client.estimate_costs(...) except: pass
Quoted(res, ship, estimate, rates_response, quote) ==
    Costed(res, ship, estimate, IF estimate.raised THEN <<>> ELSE estimate.costs,
           rates_response, quote)

\* compute_order_details from the end of the resolving loop on.
ComputeResolved(res, rates_response, quote) ==
    IF PrintfulItems(res) = <<>>
    THEN Failure(400, "No valid items in cart", CartAfter(res), <<>>)
    ELSE Quoted(res,
                ShippingStep(IF rates_response.raised THEN <<>> ELSE rates_response.result),
                PrintfulClient_estimate_costs(EstimateCostsCallArgs, quote),
                rates_response, quote)

\* compute_order_details(cart, recipient) on the catalog `cache` (already
\* lazily loaded), with the provider answering the shipping-rate request by
\* rates_response and an estimate request by quote.
compute_order_details(cart, cache, rates_response, quote) ==
    IF cart = <<>> THEN Failure(400, "Cart is empty", cart, <<>>)
    ELSE ComputeResolved([i \in 1..Len(cart) |-> ResolveItem(cache, cart[i])],
                         rates_response, quote)

\* ------------------------------------------------------------------ state
VARIABLES
    upstream,         \* the store the fulfillment provider holds now
    products_cache,   \* the process-wide catalog cache (a list of products)
    session,          \* per client: the session its cookie holds
    inflight,         \* per client: a complete-checkout request on its way
    stripe_keys,      \* which Stripe keys the environment holds
    stripe_sessions,  \* the payment processor's checkout sessions, by id
    orders,           \* the orders the fulfillment provider accepted
    resp,             \* the response to the request handled last
    recon             \* a call of the reconciling branch alone: arguments, result

vars == <<upstream, products_cache, session, inflight, stripe_keys, stripe_sessions, orders,
         resp, recon>>

\* request.session of a client that has no cookie yet; get_user_cart gives it
\* an empty cart.
EmptySession == [cart |-> <<>>, pending_order |-> <<>>]

Recipient == "recipient"

\* What a request left to observe: the HTTP answer, the requests the handler
\* issued to the provider and the processor (calls), the text of the
\* provider's error when an order submission raised (error), and what the
\* handler worked on (details: the item or index of a cart request, the
\* order details of an estimate or a checkout).
Response(op, s, status, detail, calls) ==
    [ op |-> op, session |-> s, status |-> status, detail |-> detail, calls |-> calls,
      checkout_session_id |-> NoId, order_id |-> NoId, summary |-> <<>>, details |-> <<>>,
      order |-> <<>>, error |-> "" ]

\* No request was handled by the last step (the step was the environment's).
Idle == Response("idle", 0, 0, "", <<>>)

\* No call of the reconciling branch is under examination.
NoCall == [phase |-> "none"]

KeyConfigs ==
    { [secret_key |-> TRUE,  publishable_key |-> TRUE],
      [secret_key |-> TRUE,  publishable_key |-> FALSE],
      [secret_key |-> FALSE, publishable_key |-> FALSE] }

Init ==
    /\ upstream = CatalogA
    /\ products_cache = <<>>
    /\ session = [s \in Sessions |-> EmptySession]
    /\ inflight = [s \in Sessions |-> <<>>]
    /\ stripe_keys \in KeyConfigs
    /\ stripe_sessions = <<>>
    /\ orders = <<>>
    /\ resp = Idle
    /\ recon = NoCall

\* What a handler's lazy load can bring in: nothing new when the cache is full.
Fetchable ==
    IF products_cache = <<>>
    THEN {get_products_from_printful(upstream, ok) : ok \in BOOLEAN}
    ELSE {products_cache}

TotalItems == SumSeq([i \in 1..Cardinality(Sessions) |-> Len(session[i].cart)])

\* ------------------------------------------------------------------ catalog
\* A product listing that fetches the catalog on every request.
get_products_refetching ==
    \E request_ok \in BOOLEAN :
        /\ products_cache' = get_products_from_printful(upstream, request_ok)
        /\ resp' = Response("get_products", 0, 200, "", <<"get_products">>)
        /\ UNCHANGED <<recon, upstream, session, inflight, stripe_keys, stripe_sessions, orders>>

\* GET /api/products
get_products ==
    \E fetched \in Fetchable :
        /\ products_cache' = LazyCache(products_cache, fetched)
        /\ resp' = Response("get_products", 0, 200, "",
                            IF products_cache = <<>> THEN <<"get_products">> ELSE <<>>)
        /\ UNCHANGED <<recon, upstream, session, inflight, stripe_keys, stripe_sessions, orders>>

\* POST /api/sync-products
sync_products ==
    \E sync_ok \in BOOLEAN, request_ok \in BOOLEAN :
        /\ products_cache' = IF sync_ok THEN get_products_from_printful(upstream, request_ok)
                             ELSE products_cache
        /\ resp' = IF sync_ok
                   THEN Response("sync_products", 0, 200, "", <<"sync_products", "get_products">>)
                   ELSE Response("sync_products", 0, 500, "Failed to sync products",
                                 <<"sync_products">>)
        /\ UNCHANGED <<recon, upstream, session, inflight, stripe_keys, stripe_sessions, orders>>

\* --------------------------------------------------------------------- cart
\* An add_to_cart that puts the new entry in front of the cart.
AddToCartInFront(cache, cart, item) ==
    LET product == FindProduct(cache, item.product_id)
        m == IF product = <<>> THEN 0
             ELSE FirstIndex(product[1].variants, LAMBDA v : v.name = item.size)
    IN  IF product = <<>>
        THEN [status |-> 404, detail |-> "Product not found", cart |-> cart]
        ELSE IF FirstIndex(product[1].sizes, LAMBDA z : z = item.size) = 0
        THEN [status |-> 400, detail |-> "Size not available", cart |-> cart]
        ELSE IF m = 0
        THEN [status |-> 400, detail |-> "Selected variant is unavailable", cart |-> cart]
        ELSE IF Or(product[1].variants[m].variant_id, product[1].variants[m].id) = NoId
        THEN [status |-> 400, detail |-> "Selected variant is unavailable", cart |-> cart]
        ELSE [status |-> 200, detail |-> "Item added to cart",
              cart |-> << [ product_id |-> item.product_id,
                            size |-> item.size,
                            quantity |-> item.quantity,
                            variant_id |-> Or(product[1].variants[m].variant_id,
                                              product[1].variants[m].id),
                            variant_price |-> item.variant_price,
                            sync_variant_id |-> product[1].variants[m].id ] >> \o cart]

\* The body of add_to_cart after the lazy load: the response status and
\* detail, and the cart it leaves.
AddToCart(cache, cart, item) ==
    LET product == FindProduct(cache, item.product_id)
        m == IF product = <<>> THEN 0
             ELSE FirstIndex(product[1].variants, LAMBDA v : v.name = item.size)
        variant_id == IF m = 0 THEN NoId
                      ELSE Or(product[1].variants[m].variant_id, product[1].variants[m].id)
        sync_variant_id == IF m = 0 THEN NoId ELSE product[1].variants[m].id
    IN  IF product = <<>>
        THEN [status |-> 404, detail |-> "Product not found", cart |-> cart]
        ELSE IF FirstIndex(product[1].sizes, LAMBDA z : z = item.size) = 0
        THEN [status |-> 400, detail |-> "Size not available", cart |-> cart]
        ELSE IF variant_id = NoId
        THEN [status |-> 400, detail |-> "Selected variant is unavailable", cart |-> cart]
        ELSE [status |-> 200, detail |-> "Item added to cart",
              cart |-> Append(cart, [ product_id |-> item.product_id,
                                      size |-> item.size,
                                      quantity |-> item.quantity,
                                      variant_id |-> variant_id,
                                      variant_price |-> item.variant_price,
                                      sync_variant_id |-> sync_variant_id ])]

\* POST /api/cart
add_to_cart(s, items) ==
    \E item \in items, fetched \in Fetchable :
        LET cache == LazyCache(products_cache, fetched)
            out == AddToCart(cache, session[s].cart, item)
        IN  /\ TotalItems < MaxItems
            /\ products_cache' = cache
            /\ session' = [session EXCEPT ![s].cart = out.cart]
            /\ resp' = [Response("add_to_cart", s, out.status, out.detail,
                                 IF products_cache = <<>> THEN <<"get_products">> ELSE <<>>)
                          EXCEPT !.details = <<item>>]
            /\ UNCHANGED <<recon, upstream, inflight, stripe_keys, stripe_sessions, orders>>

\* A removal that drops the last entry, whatever the index.
PopLast(cart, item_id) == SubSeq(cart, 1, Len(cart) - 1)

\* cart.pop(item_id)
Pop(cart, item_id) ==
    [i \in 1..(Len(cart) - 1) |-> IF i <= item_id THEN cart[i] ELSE cart[i + 1]]

\* DELETE /api/cart/{item_id}
remove_from_cart(s) ==
    \E item_id \in (0 - 1)..MaxItems :
        LET cart == session[s].cart
            found == 0 <= item_id /\ item_id < Len(cart)
        IN  /\ session' = [session EXCEPT ![s].cart = IF found THEN Pop(cart, item_id) ELSE cart]
            /\ resp' = [(IF found
                          THEN Response("remove_from_cart", s, 200, "Item removed from cart", <<>>)
                          ELSE Response("remove_from_cart", s, 404, "Cart item not found", <<>>))
                          EXCEPT !.details = <<item_id>>]
            /\ UNCHANGED <<recon, upstream, products_cache, inflight, stripe_keys, stripe_sessions, orders>>

\* ----------------------------------------------------------------- estimate
\* The provider request a handler's lazy load of the catalog makes.
FetchCalls(cart) ==
    IF cart # <<>> /\ products_cache = <<>> THEN <<"get_products">> ELSE <<>>

\* The handler's answer once compute_order_details returned or raised.
EstimateAnswer(s, cache, details) ==
    /\ products_cache' = cache
    /\ session' = [session EXCEPT ![s].cart = details.cart]
    /\ resp' = [Response("estimate_costs", s, details.status, details.detail,
                         FetchCalls(session[s].cart) \o details.calls)
                  EXCEPT !.details = <<details>>]

EstimateOn(s, cache, rates_response, quote) ==
    EstimateAnswer(s, cache,
                   compute_order_details(session[s].cart, cache, rates_response, quote))

\* POST /api/estimate-costs and POST /api/calculate-total-cost with a valid
\* recipient: both answer from compute_order_details on the session's cart.
estimate_costs(s, rates, quotes) ==
    \E rates_response \in rates, quote \in quotes, fetched \in Fetchable :
        /\ EstimateOn(s, IF session[s].cart = <<>> THEN products_cache
                         ELSE LazyCache(products_cache, fetched),
                      rates_response, quote)
        /\ UNCHANGED <<recon, upstream, inflight, stripe_keys, stripe_sessions, orders>>

\* ----------------------------------------------------------------- checkout
\* for entry in order_details["cart_entries"]: one Stripe line item per
\* entry with a positive amount (amounts in cents).
EntryLineItems(entries) ==
    SelectSeqBy([i \in 1..Len(entries) |-> [ name |-> "item",
                                             unit_amount |-> entries[i].unit_price,
                                             quantity |-> entries[i].quantity ]],
                [i \in 1..Len(entries) |-> entries[i].unit_price > 0])

\* The Stripe line items create_checkout_session builds: the entries' items,
\* then shipping and tax when positive.
LineItems(order_details) ==
    EntryLineItems(order_details.cart_entries)
    \o (IF order_details.shipping_cost > 0
        THEN <<[name |-> "Shipping", unit_amount |-> order_details.shipping_cost,
                quantity |-> 1]>>
        ELSE <<>>)
    \o (IF order_details.tax_amount > 0
        THEN <<[name |-> "Taxes", unit_amount |-> order_details.tax_amount,
                quantity |-> 1]>>
        ELSE <<>>)

\* The cost summary kept with the pending order and sent as retail_costs.
Summary(order_details) ==
    [ subtotal |-> order_details.subtotal,
      shipping |-> order_details.shipping_cost,
      tax |-> order_details.tax_amount,
      total |-> order_details.total ]

\* The record create_checkout_session stores under session["pending_order"].
PendingOrder(checkout_session_id, order_details) ==
    [ checkout_session_id |-> checkout_session_id,
      printful_order |->
          << [ recipient |-> Recipient,
               items |-> order_details.printful_items,
               shipping |-> IF order_details.shipping_method_id # <<>>
                            THEN order_details.shipping_method_id[1]
                            ELSE "STANDARD",
               retail_costs |-> Summary(order_details),
               confirm |-> TRUE ] >>,
      summary |-> Summary(order_details),
      fulfilled |-> FALSE,
      order_id |-> NoId ]

\* A failure that discards the pending order the session held.
CheckoutFailureDropsPending(s, status, detail, calls, details) ==
    /\ resp' = [Response("create_checkout_session", s, status, detail, calls)
                  EXCEPT !.details = IF details.status = 200 THEN <<details>> ELSE <<>>]
    /\ session' = [session EXCEPT ![s] = [cart |-> details.cart, pending_order |-> <<>>]]
    /\ UNCHANGED stripe_sessions

\* A failure of create_checkout_session after compute_order_details ran.
CheckoutFailure(s, status, detail, calls, details) ==
    /\ resp' = [Response("create_checkout_session", s, status, detail, calls)
                  EXCEPT !.details = IF details.status = 200 THEN <<details>> ELSE <<>>]
    /\ session' = [session EXCEPT ![s].cart = details.cart]
    /\ UNCHANGED stripe_sessions

\* stripe.checkout.Session.create succeeded with session `id`: the pending
\* order replaces whatever session["pending_order"] held.
CheckoutCreated(s, id, calls, details) ==
    /\ id <= MaxPay
    /\ stripe_sessions' = Append(stripe_sessions, [payment_status |-> "unpaid", client |-> s])
    /\ session' = [session EXCEPT ![s] = [cart |-> details.cart,
                                          pending_order |-> <<PendingOrder(id, details)>>]]
    /\ resp' = [Response("create_checkout_session", s, 200, "", calls)
                  EXCEPT !.checkout_session_id = id, !.details = <<details>>]

\* create_checkout_session from the return of compute_order_details on.
CheckoutAnswer(s, cache, details, stripe_ok) ==
    /\ products_cache' = cache
    /\ IF details.status # 200
       THEN CheckoutFailure(s, details.status, details.detail,
                            FetchCalls(session[s].cart) \o details.calls, details)
       ELSE IF LineItems(details) = <<>>
       THEN CheckoutFailure(s, 400, "Unable to create checkout session without priced items",
                            FetchCalls(session[s].cart) \o details.calls, details)
       ELSE IF ~stripe_ok
       THEN CheckoutFailure(s, 500, "Stripe error",
                            FetchCalls(session[s].cart) \o details.calls \o <<"stripe_create">>,
                            details)
       ELSE CheckoutCreated(s, Len(stripe_sessions) + 1,
                            FetchCalls(session[s].cart) \o details.calls \o <<"stripe_create">>,
                            details)

CheckoutOn(s, cache, rates_response, quote, stripe_ok) ==
    CheckoutAnswer(s, cache,
                   compute_order_details(session[s].cart, cache, rates_response, quote),
                   stripe_ok)

\* POST /api/create-checkout-session
create_checkout_session(s, rates, quotes) ==
    \E rates_response \in rates, quote \in quotes, fetched \in Fetchable,
       stripe_ok \in BOOLEAN :
        /\ IF ~(stripe_keys.secret_key /\ stripe_keys.publishable_key)
           THEN /\ resp' = Response("create_checkout_session", s, 500,
                                    "Stripe credentials are not configured", <<>>)
                /\ UNCHANGED <<products_cache, session, stripe_sessions>>
           ELSE CheckoutOn(s, IF session[s].cart = <<>> THEN products_cache
                              ELSE LazyCache(products_cache, fetched),
                           rates_response, quote, stripe_ok)
        /\ UNCHANGED <<recon, upstream, inflight, stripe_keys, orders>>

\* The merchant's store changes at the provider.
catalog_changes ==
    \E store \in UpstreamCatalogs \ {upstream} :
        /\ upstream' = store
        /\ resp' = Idle
        /\ UNCHANGED <<recon, products_cache, session, inflight, stripe_keys, stripe_sessions, orders>>

\* The customer pays on the processor's hosted page.
Pay ==
    \E id \in 1..Len(stripe_sessions) :
        /\ stripe_sessions[id].payment_status = "unpaid"
        /\ stripe_sessions' = [stripe_sessions EXCEPT ![id].payment_status = "paid"]
        /\ resp' = Idle
        /\ UNCHANGED <<recon, upstream, products_cache, session, inflight, stripe_keys, orders>>

RetrieveOutcomes == {"ok", "StripeError"}
CreateOrderOutcomes == {"accepted", "no print files", "rejected"}

\* A response of complete_checkout.
Completed(s, status, detail, calls, order_id, summary, order) ==
    [Response("complete_checkout", s, status, detail, calls)
       EXCEPT !.order_id = order_id, !.summary = summary, !.order = order]

\* A handler that empties the cart before it knows the order was accepted.
UnchangedButCart(sess, response) ==
    [session |-> [sess EXCEPT !.cart = <<>>], order |-> <<>>, resp |-> response]

\* An outcome of complete_checkout that leaves the session as it was.
Unchanged(sess, response) == [session |-> sess, order |-> <<>>, resp |-> response]

\* A completion that forgets to mark the pending record fulfilled.
FulfilledUnmarked(s, pending, session_id, order_id) ==
    [ session |-> [ cart |-> <<>>,
                    pending_order |-> << [pending EXCEPT !.order_id = order_id] >> ],
      order |-> << [ checkout_session_id |-> session_id, client |-> s,
                     summary |-> pending.summary ] >>,
      resp |-> Completed(s, 200, "Order fulfilled successfully",
                         <<"stripe_retrieve", "create_order">>,
                         order_id, <<pending.summary>>, pending.printful_order) ]

\* order_response = printful_client.create_order(...) was accepted as order
\* number order_id: the pending record is marked fulfilled and the cart emptied.
Fulfilled(s, pending, session_id, order_id) ==
    [ session |-> [ cart |-> <<>>,
                    pending_order |-> << [ checkout_session_id |-> session_id,
                                           printful_order |-> <<>>,
                                           summary |-> pending.summary,
                                           fulfilled |-> TRUE,
                                           order_id |-> order_id ] >> ],
      order |-> << [ checkout_session_id |-> session_id, client |-> s,
                     summary |-> pending.summary ] >>,
      resp |-> Completed(s, 200, "Order fulfilled successfully",
                         <<"stripe_retrieve", "create_order">>,
                         order_id, <<pending.summary>>, pending.printful_order) ]

\* IsPaid with the test for "paid" lost: any retrieved session passes.
IsPaidAnyStatus(payment_status) == payment_status \in {"paid", "unpaid"}

\* payment_status == "paid"
IsPaid(payment_status) == payment_status = "paid"

\* complete_checkout once the pending order matching session_id was found.
CompletePending(s, sess, pending, session_id, retrieve, create_order) ==
    IF pending.fulfilled
    THEN Unchanged(sess, Completed(s, 200, "Order already fulfilled", <<>>,
                                   pending.order_id, <<pending.summary>>, <<>>))
    ELSE IF retrieve = "StripeError"
    THEN Unchanged(sess, Completed(s, 400, "Invalid checkout session",
                                   <<"stripe_retrieve">>, NoId, <<>>, <<>>))
    ELSE IF ~IsPaid(stripe_sessions[session_id].payment_status)
    THEN Unchanged(sess, Completed(s, 400, "Payment not completed",
                                   <<"stripe_retrieve">>, NoId, <<>>, <<>>))
    ELSE IF create_order = "no print files"
    THEN Unchanged(sess, [Completed(s, 400, "Design files are not configured",
                                    <<"stripe_retrieve", "create_order">>, NoId, <<>>,
                                    pending.printful_order)
                            EXCEPT !.error = create_order])
    ELSE IF create_order = "rejected"
    THEN Unchanged(sess, [Completed(s, 500, "Failed to create Printful order",
                                    <<"stripe_retrieve", "create_order">>, NoId, <<>>,
                                    pending.printful_order)
                            EXCEPT !.error = create_order])
    ELSE Fulfilled(s, pending, session_id, Len(orders) + 1)

\* pending_order = request.session.get("pending_order"); it matches when it
\* exists and holds this checkout_session_id.
Matches(pending_order, session_id) ==
    pending_order # <<>> /\ pending_order[1].checkout_session_id = session_id

\* A complete_checkout that lets the payload follow the edits of the cart:
\* it submits only as many of the stored items as the cart holds now.
CompleteCheckoutFromCart(s, sess, session_id, retrieve, create_order) ==
    IF ~stripe_keys.secret_key
    THEN Unchanged(sess, Completed(s, 500, "Stripe is not configured", <<>>,
                                   NoId, <<>>, <<>>))
    ELSE IF ~Matches(sess.pending_order, session_id)
    THEN Unchanged(sess, Completed(s, 404, "No matching pending order found", <<>>,
                                   NoId, <<>>, <<>>))
    ELSE IF sess.pending_order[1].printful_order = <<>>
            \/ Len(sess.pending_order[1].printful_order[1].items) <= Len(sess.cart)
    THEN CompletePending(s, sess, sess.pending_order[1], session_id, retrieve, create_order)
    ELSE CompletePending(s, sess,
                         [sess.pending_order[1] EXCEPT !.printful_order =
                             << [ sess.pending_order[1].printful_order[1] EXCEPT !.items =
                                    SubSeq(sess.pending_order[1].printful_order[1].items,
                                           1, Len(sess.cart)) ] >>],
                         session_id, retrieve, create_order)

\* complete_checkout on the session state `sess` the request carries:
\* the session it leaves, the response, and the order the provider accepted.
CompleteCheckout(s, sess, session_id, retrieve, create_order) ==
    IF ~stripe_keys.secret_key
    THEN Unchanged(sess, Completed(s, 500, "Stripe is not configured", <<>>,
                                   NoId, <<>>, <<>>))
    ELSE IF ~Matches(sess.pending_order, session_id)
    THEN Unchanged(sess, Completed(s, 404, "No matching pending order found", <<>>,
                                   NoId, <<>>, <<>>))
    ELSE CompletePending(s, sess, sess.pending_order[1], session_id, retrieve, create_order)

\* A server that keeps one cart and one pending order for all its clients.
CompleteAnswerShared(s, session_id, out) ==
    /\ Len(orders) + Len(out.order) <= MaxOrders
    /\ session' = [b \in Sessions |-> out.session]
    /\ orders' = orders \o out.order
    /\ resp' = [out.resp EXCEPT !.checkout_session_id = session_id]

\* The handler's effect: the response's Set-Cookie gives the client the
\* session the handler left, and the provider holds the order it accepted.
CompleteAnswer(s, session_id, out) ==
    /\ Len(orders) + Len(out.order) <= MaxOrders
    /\ session' = [session EXCEPT ![s] = out.session]
    /\ orders' = orders \o out.order
    /\ resp' = [out.resp EXCEPT !.checkout_session_id = session_id]

\* POST /api/checkout-success carrying the client's current cookie.
complete_checkout(s) ==
    \E session_id \in 1..MaxPay, retrieve \in RetrieveOutcomes,
       create_order \in CreateOrderOutcomes :
        /\ CompleteAnswer(s, session_id,
                          CompleteCheckout(s, session[s], session_id, retrieve, create_order))
        /\ UNCHANGED <<recon, upstream, products_cache, inflight, stripe_keys, stripe_sessions>>

\* The client sends a second POST /api/checkout-success for its pending
\* order while the cookie it holds is the one the request carries.
send_complete_checkout(s) ==
    /\ inflight[s] = <<>>
    /\ session[s].pending_order # <<>>
    /\ inflight' = [inflight EXCEPT ![s] =
           << [ session_id |-> session[s].pending_order[1].checkout_session_id,
                session |-> session[s] ] >>]
    /\ resp' = Idle
    /\ UNCHANGED <<recon, upstream, products_cache, session, stripe_keys, stripe_sessions, orders>>

\* The server handles the request in flight: the session is the one the
\* request carried, and the response's Set-Cookie replaces the client's cookie.
handle_complete_checkout(s) ==
    \E retrieve \in RetrieveOutcomes, create_order \in CreateOrderOutcomes :
        /\ inflight[s] # <<>>
        /\ CompleteAnswer(s, inflight[s][1].session_id,
                          CompleteCheckout(s, inflight[s][1].session,
                                           inflight[s][1].session_id, retrieve, create_order))
        /\ inflight' = [inflight EXCEPT ![s] = <<>>]
        /\ UNCHANGED <<recon, upstream, products_cache, stripe_keys, stripe_sessions>>

\* The shop with one client checking out: single catalog-priced items, a
\* shipping-rate request that fails or returns one rate.
CheckoutItems == CartItems({1, 2}, {"S", "One Size"}, {1}, {<<>>})

CheckoutRates ==
    { [raised |-> TRUE,  result |-> <<>>],
      [raised |-> FALSE, result |-> <<Rate("STANDARD", "Flat Rate", 499)>>] }

CheckoutQuotes ==
    { [raised |-> FALSE, costs |-> [subtotal |-> 360, shipping |-> 499, tax |-> 31, total |-> 890]] }

Next ==
    \/ add_to_cart(1, CheckoutItems)
    \/ remove_from_cart(1)
    \/ create_checkout_session(1, CheckoutRates, CheckoutQuotes)
    \/ Pay
    \/ complete_checkout(1)

Spec == Init /\ [][Next]_vars

\* The same client sending a second complete-checkout request while the
\* first is being answered.
RaceItems == CartItems({1}, {"S"}, {1}, {<<>>})

NextRace ==
    \/ add_to_cart(1, RaceItems)
    \/ create_checkout_session(1, CheckoutRates, CheckoutQuotes)
    \/ Pay
    \/ complete_checkout(1)
    \/ send_complete_checkout(1)
    \/ handle_complete_checkout(1)

SpecRace == Init /\ [][NextRace]_vars

\* The cart and the estimate alone, over every price, quantity and provider
\* answer, with the Stripe keys configured.
InitEstimate == Init /\ stripe_keys.secret_key /\ stripe_keys.publishable_key

EstimateItems == CartItems({1, 2}, {"S", "M", "One Size"}, Quantities, PriceChoices)

NextEstimate ==
    \/ catalog_changes
    \/ get_products
    \/ sync_products
    \/ add_to_cart(1, EstimateItems)
    \/ remove_from_cart(1)
    \/ estimate_costs(1, RatesResponses, QuoteAnswers)

SpecEstimate == InitEstimate /\ [][NextEstimate]_vars

\* The reconciling branch of compute_order_details alone, on the values the
\* function can hold when it gets there: entries priced in whole cents
\* with positive quantities, the shipping cost of the shipping step, and a
\* non-empty cost block of the provider (amounts in cents).  The prices are
\* multiples of 2.00, so that the local tax is never an exact half cent.
ReconPrices == {0, 200, 600, 1000}

ReconQuantities == {1, 2, 3}

ReconEntry == [ product_id : {1}, variant_id : {101}, size : {"S"},
                quantity : ReconQuantities, unit_price : ReconPrices ]

ReconEntries == {<<e>> : e \in ReconEntry} \cup {<<e, f>> : e \in ReconEntry, f \in ReconEntry}

ReconCosts ==
    { [subtotal |-> 3000, shipping |-> 499, tax |-> 255, total |-> 3754],
      [subtotal |-> 1000, shipping |-> 499, tax |-> 85, total |-> 1584],
      [subtotal |-> 360, shipping |-> 499, tax |-> 0, vat |-> 76, total |-> 935],
      [subtotal |-> 1000, shipping |-> 499],
      [total |-> 890],
      [subtotal |-> 0, shipping |-> 0, tax |-> 0, total |-> 0] }

InitReconcile ==
    /\ upstream = CatalogA
    /\ products_cache = <<>>
    /\ session = [s \in Sessions |-> EmptySession]
    /\ inflight = [s \in Sessions |-> <<>>]
    /\ stripe_keys = [secret_key |-> TRUE, publishable_key |-> TRUE]
    /\ stripe_sessions = <<>>
    /\ orders = <<>>
    /\ resp = Idle
    /\ recon \in [ phase : {"called"}, printful_costs : ReconCosts,
                   cart_entries : ReconEntries, shipping_cost : {FallbackShipping, 499} ]

\* The branch `if printful_costs:` runs on the arguments and returns.
reconcile ==
    /\ recon.phase = "called"
    /\ recon' = [ phase |-> "returned",
                  printful_costs |-> recon.printful_costs,
                  cart_entries |-> recon.cart_entries,
                  shipping_cost |-> recon.shipping_cost,
                  out |-> Reconcile(recon.printful_costs,
                                    SumLines(recon.cart_entries) * MicroPerCent,
                                    recon.shipping_cost,
                                    TaxAmount(SumLines(recon.cart_entries) * MicroPerCent),
                                    recon.cart_entries) ]
    /\ UNCHANGED <<upstream, products_cache, session, inflight, stripe_keys,
                   stripe_sessions, orders, resp>>

NextReconcile == reconcile

SpecReconcile == InitReconcile /\ [][NextReconcile]_vars

\* ------------------------------------------------------------- direct order
\* The store after the provider stopped reporting identifiers for the one
\* variant of product 2 (variant.get("id") and variant.get("variant_id")
\* both absent); product 1 is as in CatalogA.
CatalogC ==
    << [id |-> 1, price |-> 2000, sizes |-> <<"S", "M">>,
        variants |-> <<Variant(11, 101, "S"), Variant(12, 102, "M")>>],
       [id |-> 2, price |-> 0, sizes |-> <<"One Size">>,
        variants |-> <<Variant(NoId, NoId, "One Size")>>] >>

\* The merchant's store changes at the provider, within `stores`.
catalog_changes_within(stores) ==
    \E store \in stores \ {upstream} :
        /\ upstream' = store
        /\ resp' = Idle
        /\ UNCHANGED <<recon, products_cache, session, inflight, stripe_keys, stripe_sessions, orders>>

\* A direct endpoint that took every cart entry into the order.
HasIdentifierAlways(cart_item) == TRUE

\* if cart_item.get("variant_id") or cart_item.get("sync_variant_id")
HasIdentifier(cart_item) == cart_item.variant_id # NoId \/ cart_item.sync_variant_id # NoId

\* The item create_order builds for a cart entry.
DirectItem(cart_item) ==
    [ quantity |-> cart_item.quantity,
      sync_variant_id |-> cart_item.sync_variant_id,
      variant_id |-> IF cart_item.sync_variant_id # NoId THEN NoId ELSE cart_item.variant_id,
      source |-> IF cart_item.sync_variant_id # NoId THEN "sync" ELSE "" ]

\* items: one per cart entry that holds an identifier
DirectItems(cart) ==
    SelectSeqBy([i \in 1..Len(cart) |-> DirectItem(cart[i])],
                [i \in 1..Len(cart) |-> HasIdentifier(cart[i])])

\* A response of create_order, with the cart the handler read.
DirectAnswer(s, status, detail, calls, cart, order) ==
    [Response("create_order", s, status, detail, calls)
       EXCEPT !.details = <<[cart |-> cart]>>, !.order = order]

\* create_order from the submission to the provider on.
DirectSubmit(s, cart, items, outcome) ==
    IF outcome = "no print files"
    THEN /\ resp' = [DirectAnswer(s, 400, "Design files are not configured",
                                  <<"create_order">>, cart, <<>>)
                        EXCEPT !.error = outcome]
         /\ UNCHANGED <<session, orders>>
    ELSE IF outcome = "rejected"
    THEN /\ resp' = [DirectAnswer(s, 500, "Failed to create order",
                                  <<"create_order">>, cart, <<>>)
                        EXCEPT !.error = outcome]
         /\ UNCHANGED <<session, orders>>
    ELSE /\ Len(orders) < MaxOrders
         /\ resp' = [DirectAnswer(s, 200, "Order created successfully", <<"create_order">>,
                                  cart, <<[recipient |-> Recipient, items |-> items,
                                           shipping |-> "STANDARD", retail_price |-> 0]>>)
                       EXCEPT !.order_id = Len(orders) + 1]
         /\ session' = [session EXCEPT ![s].cart = <<>>]
         /\ orders' = Append(orders, [checkout_session_id |-> NoId, client |-> s,
                                      summary |-> [retail_price |-> 0]])

\* POST /api/create-order
create_order(s) ==
    \E outcome \in CreateOrderOutcomes :
        /\ IF session[s].cart = <<>>
           THEN /\ resp' = DirectAnswer(s, 400, "Cart is empty", <<>>, <<>>, <<>>)
                /\ UNCHANGED <<session, orders>>
           ELSE IF DirectItems(session[s].cart) = <<>>
           THEN /\ resp' = DirectAnswer(s, 400, "No valid items in cart", <<>>,
                                        session[s].cart, <<>>)
                /\ UNCHANGED <<session, orders>>
           ELSE DirectSubmit(s, session[s].cart, DirectItems(session[s].cart), outcome)
        /\ UNCHANGED <<recon, upstream, products_cache, inflight, stripe_keys, stripe_sessions>>

\* One client ordering while the provider withdraws the identifiers of a
\* variant: through the checkout session and through the direct endpoint.
OrderItems == CartItems({1, 2}, {"S", "One Size"}, {1}, {<<>>})

OrderStores == {CatalogA, CatalogC}

\* The shipping-rate request fails, or returns one rate: a flat rate or a
\* free one.
OrderRates ==
    { [raised |-> TRUE,  result |-> <<>>],
      [raised |-> FALSE, result |-> <<Rate("STANDARD", "Flat Rate", 499)>>],
      [raised |-> FALSE, result |-> <<Rate("FREE", "Free Shipping", 0)>>] }

NextOrder ==
    \/ catalog_changes_within(OrderStores)
    \/ sync_products
    \/ add_to_cart(1, OrderItems)
    \/ create_checkout_session(1, OrderRates, CheckoutQuotes)
    \/ create_order(1)

SpecOrder == Init /\ [][NextOrder]_vars

\* Two clients, each with its own cookie, shopping and checking out side by
\* side; a completion request may name any payment session the processor
\* holds, the other client's included.
SharedItems == CartItems({1}, {"S", "M"}, {1}, {<<>>})

SharedRates == { [raised |-> FALSE, result |-> <<Rate("STANDARD", "Flat Rate", 499)>>] }

NextShared ==
    \E s \in Sessions :
        \/ add_to_cart(s, SharedItems)
        \/ remove_from_cart(s)
        \/ estimate_costs(s, SharedRates, CheckoutQuotes)
        \/ create_checkout_session(s, SharedRates, CheckoutQuotes)
        \/ Pay
        \/ complete_checkout(s)

SpecShared == InitEstimate /\ [][NextShared]_vars

\* One client posting any quantity the CartItem model accepts (quantity: int
\* carries no lower bound): zero besides the positive ones.
QuantityItems == CartItems({1}, {"S", "M"}, {0, 1, 2}, {<<>>})

NextQuantity ==
    \/ add_to_cart(1, QuantityItems)
    \/ remove_from_cart(1)
    \/ estimate_costs(1, CheckoutRates, CheckoutQuotes)
    \/ create_checkout_session(1, CheckoutRates, CheckoutQuotes)

SpecQuantity == InitEstimate /\ [][NextQuantity]_vars

\* One client editing a cart of three entries: the cart three accepted add
\* requests leave, on the catalog loaded from the store.
EditItems == CartItems({1}, {"S", "M"}, {1, 2}, {<<>>})

\* The cart after add requests for a, b and c in this order.
ThreeAdds(cache, a, b, c) ==
    AddToCart(cache, AddToCart(cache, AddToCart(cache, <<>>, a).cart, b).cart, c).cart

InitEdit ==
    /\ upstream = CatalogA
    /\ products_cache = get_products_from_printful(CatalogA, TRUE)
    /\ \E a \in EditItems, b \in EditItems, c \in EditItems :
           session = [s \in Sessions |->
                         IF s = 1
                         THEN [cart |-> ThreeAdds(products_cache, a, b, c), pending_order |-> <<>>]
                         ELSE EmptySession]
    /\ inflight = [s \in Sessions |-> <<>>]
    /\ stripe_keys \in KeyConfigs
    /\ stripe_sessions = <<>>
    /\ orders = <<>>
    /\ resp = Idle
    /\ recon = NoCall

NextEdit ==
    \/ remove_from_cart(1)
    \/ add_to_cart(1, EditItems)

SpecEdit == InitEdit /\ [][NextEdit]_vars

\* ---------------------------------------------------------- catalog access
\* GET /api/products/{product_id}
get_product(product_ids) ==
    \E product_id \in product_ids, fetched \in Fetchable :
        /\ products_cache' = LazyCache(products_cache, fetched)
        /\ resp' = [(IF FindProduct(LazyCache(products_cache, fetched), product_id) = <<>>
                     THEN Response("get_product", 0, 404, "Product not found",
                                   IF products_cache = <<>> THEN <<"get_products">> ELSE <<>>)
                     ELSE Response("get_product", 0, 200, "",
                                   IF products_cache = <<>> THEN <<"get_products">> ELSE <<>>))
                      EXCEPT !.details = <<product_id>>,
                             !.order = FindProduct(LazyCache(products_cache, fetched), product_id)]
        /\ UNCHANGED <<recon, upstream, session, inflight, stripe_keys, stripe_sessions, orders>>

\* enriched_cart: the entries of the cart whose product is in the catalog,
\* each with its product attached.
EnrichedCart(cart, cache) ==
    SelectSeqBy([i \in 1..Len(cart) |-> [entry |-> cart[i],
                                          product |-> FindProduct(cache, cart[i].product_id)]],
                [i \in 1..Len(cart) |-> FindProduct(cache, cart[i].product_id) # <<>>])

\* GET /api/cart
get_cart(s) ==
    \E fetched \in Fetchable :
        /\ products_cache' = LazyCache(products_cache, fetched)
        /\ resp' = [Response("get_cart", s, 200, "",
                             IF products_cache = <<>> THEN <<"get_products">> ELSE <<>>)
                      EXCEPT !.details = <<[cart |-> session[s].cart,
                                            enriched_cart |->
                                                EnrichedCart(session[s].cart,
                                                             LazyCache(products_cache, fetched))]>>]
        /\ UNCHANGED <<recon, upstream, session, inflight, stripe_keys, stripe_sessions, orders>>

\* One client browsing, filling its cart and checking out while the
\* merchant's store changes at the provider and the catalog is synced.
ProductIds == {1, 2, 3}

NextCatalog ==
    \/ catalog_changes
    \/ get_products
    \/ get_product(ProductIds)
    \/ sync_products
    \/ add_to_cart(1, CheckoutItems)
    \/ get_cart(1)
    \/ remove_from_cart(1)
    \/ estimate_costs(1, SharedRates, CheckoutQuotes)
    \/ create_checkout_session(1, SharedRates, CheckoutQuotes)

SpecCatalog == InitEstimate /\ [][NextCatalog]_vars

\* ------------------------------------------------------ resolver precedence
\* Product 1 after the merchant rearranged its variants: the sync id 11 now
\* belongs to the variant named "M", listed last; the variant id 101 to the
\* one named "L"; the first variant is a new one named "S".
CatalogD ==
    << [id |-> 1, price |-> 2000, sizes |-> <<"S", "L", "M">>,
        variants |-> <<Variant(15, 105, "S"), Variant(14, 101, "L"),
                       Variant(11, 102, "M")>>] >>

\* Product 1 with two variants named "S" and the variant id 101 on the
\* variant named "L"; no variant keeps a sync id of CatalogA.
CatalogE ==
    << [id |-> 1, price |-> 2000, sizes |-> <<"S", "L">>,
        variants |-> <<Variant(15, 105, "S"), Variant(16, 106, "S"),
                       Variant(14, 101, "L")>>] >>

ResolverStores == {CatalogA, CatalogD, CatalogE}

ResolverItems == CartItems({1}, {"S", "M"}, {1}, {<<>>})

\* One client whose cart entries are resolved again after the store changed.
NextResolver ==
    \/ catalog_changes_within(ResolverStores)
    \/ sync_products
    \/ add_to_cart(1, ResolverItems)
    \/ remove_from_cart(1)
    \/ estimate_costs(1, SharedRates, CheckoutQuotes)

SpecResolver == InitEstimate /\ [][NextResolver]_vars

\* ------------------------------------------------------- captured prices
\* One client posting the prices the CartItem model accepts
\* (variant_price: Optional[float]): none, 0.00 or 4.00 USD.
CapturedPrices == {<<>>, <<0>>, <<4000>>}

PriceItems == CartItems({1}, {"S", "M"}, {1, 2}, CapturedPrices)

NextPrice ==
    \/ add_to_cart(1, PriceItems)
    \/ remove_from_cart(1)
    \/ estimate_costs(1, SharedRates, CheckoutQuotes)

SpecPrice == InitEstimate /\ [][NextPrice]_vars

\* ------------------------------------------------------ catalog normalizer
\* A raw variant as the provider reports it: its sync id, catalog variant
\* id, name, retail price (mills, 0: none reported), whether it is in stock,
\* whether its files hold a mockup with a preview url, and the embedded
\* catalog-product metadata ("product"): absent, or the catalog product id
\* and variant id with whether GET /products/{product_id} answers a main
\* category.
RawVariant(id, variant_id, name, retail_price, in_stock, mockup, product) ==
    [ id |-> id, variant_id |-> variant_id, name |-> name, retail_price |-> retail_price,
      in_stock |-> in_stock, mockup |-> mockup, product |-> product ]

ProductMeta(product_id, variant_id, categorized) ==
    <<[product_id |-> product_id, variant_id |-> variant_id, categorized |-> categorized]>>

\* The "variants" field of a raw product: a count (store products) or a list.
VariantCount(n) == [kind |-> "count", count |-> n, list |-> <<>>]

VariantList(list) == [kind |-> "list", count |-> 0, list |-> list]

\* A raw product of the provider's answer: id, name (<<>>: null), the
\* variants field, and what the provider answers for this product to
\* GET /store/products/{id} (detail) and to the variants endpoint
\* (variants_endpoint): <<>> when the request fails, else the variant list.
RawProduct(id, name, variants, detail, variants_endpoint) ==
    [ id |-> id, name |-> name, variants |-> variants, detail |-> detail,
      variants_endpoint |-> variants_endpoint ]

\* The variants convert_printful_to_product works with after the fetch step.
FetchedVariants(p) ==
    IF p.variants.kind = "list" THEN p.variants.list
    ELSE IF p.variants.count <= 0 THEN <<>>
    ELSE IF p.detail = <<>> THEN <<>>
    ELSE IF p.detail[1] # <<>> THEN p.detail[1]
    ELSE IF p.variants_endpoint = <<>> THEN <<>>
    ELSE p.variants_endpoint[1]

\* A fetch step that asks for the details of every product given by count.
VariantFetchCallsAnyCount(p) ==
    IF p.variants.kind = "list" THEN <<>>
    ELSE IF p.detail = <<>> THEN <<"get_product">>
    ELSE IF p.detail[1] # <<>> THEN <<"get_product">>
    ELSE <<"get_product", "get_product_variants">>

\* The variant-detail requests the fetch step issues.
VariantFetchCalls(p) ==
    IF p.variants.kind = "list" THEN <<>>
    ELSE IF p.variants.count <= 0 THEN <<>>
    ELSE IF p.detail = <<>> THEN <<"get_product">>
    ELSE IF p.detail[1] # <<>> THEN <<"get_product">>
    ELSE <<"get_product", "get_product_variants">>

\* The local product_id after the loop `for variant in variants` from
\* variant k on: the loop stops at a variant with a mockup file; until a
\* catalog category was found every variant overwrites product_id by the
\* product id of its embedded metadata (None when it has none).
RECURSIVE ScanVariants(_, _, _, _)
ScanVariants(variants, k, product_id, categorized) ==
    IF k > Len(variants) THEN product_id
    ELSE IF variants[k].mockup THEN product_id
    ELSE IF categorized THEN ScanVariants(variants, k + 1, product_id, TRUE)
    ELSE IF variants[k].product = <<>> THEN ScanVariants(variants, k + 1, NoId, FALSE)
    ELSE ScanVariants(variants, k + 1, variants[k].product[1].product_id,
                      /\ variants[k].product[1].product_id # NoId
                      /\ variants[k].product[1].variant_id # NoId
                      /\ variants[k].product[1].categorized)

\* sizes: the variant names in order, each once
RECURSIVE SizesOf(_, _)
SizesOf(variants, sizes) ==
    IF variants = <<>> THEN sizes
    ELSE SizesOf(Tail(variants),
                 IF \E j \in 1..Len(sizes) : sizes[j] = variants[1].name THEN sizes
                 ELSE Append(sizes, variants[1].name))

\* The positive retail prices of the variants.
VariantPrices(variants) ==
    {variants[k].retail_price : k \in {j \in 1..Len(variants) : variants[j].retail_price > 0}}

MinOf(S) == CHOOSE x \in S : \A y \in S : x <= y

MaxOf(S) == CHOOSE x \in S : \A y \in S : x >= y

\* return Product(...): pydantic rejects id = None.
NormalizedProduct(p, variants, product_id) ==
    [ raised |-> p.name = <<>> \/ product_id = NoId,
      calls |-> VariantFetchCalls(p),
      product |-> [ id |-> product_id,
                    printful_product_id |-> product_id,
                    name |-> p.name,
                    price |-> IF VariantPrices(variants) = {} THEN 0
                              ELSE MinOf(VariantPrices(variants)),
                    price_range |-> IF Cardinality(VariantPrices(variants)) <= 1 THEN <<>>
                                    ELSE <<MinOf(VariantPrices(variants)),
                                           MaxOf(VariantPrices(variants))>>,
                    sizes |-> IF variants = <<>> THEN <<"One Size">>
                              ELSE SizesOf(variants, <<>>),
                    in_stock |-> \E k \in 1..Len(variants) : variants[k].in_stock,
                    variants |-> variants ] ]

\* convert_printful_to_product(printful_product): whether it raised, the
\* variant-detail requests it issued, and the product it returned.
convert_printful_to_product(printful_product) ==
    NormalizedProduct(printful_product, FetchedVariants(printful_product),
                      ScanVariants(FetchedVariants(printful_product), 1,
                                   printful_product.id, FALSE))

\* A fetch that gives up the whole catalog when one conversion raises.
FetchProductsAllOrNothing(response) ==
    IF response.raised THEN <<>>
    ELSE IF \E i \in 1..Len(response.result) :
                convert_printful_to_product(response.result[i]).raised
    THEN <<>>
    ELSE [i \in 1..Len(response.result) |->
             convert_printful_to_product(response.result[i]).product]

\* get_products_from_printful() on the provider's raw answer: the products
\* whose conversion returned, in order; [] when the request failed.
FetchProducts(response) ==
    IF response.raised THEN <<>>
    ELSE SelectSeqBy([i \in 1..Len(response.result) |->
                          convert_printful_to_product(response.result[i]).product],
                     [i \in 1..Len(response.result) |->
                          ~convert_printful_to_product(response.result[i]).raised])

\* The raw products of the store: variants listed with a mockup on the
\* first one (1), without mockup but with catalog metadata (2), with
\* neither (3); a count of 0 (4); a count with the detail request answering
\* (5), failing (6) or answering no variants so that the variants endpoint
\* is asked (7); a null name (8); two variants, the metadata of the first
\* incomplete and the second with a mockup (9).
RawProducts ==
    { RawProduct(1, <<"Shirt">>,
          VariantList(<<RawVariant(11, 101, "S", 2000, TRUE, TRUE, ProductMeta(71, 4011, TRUE)),
                        RawVariant(12, 102, "M", 2500, TRUE, TRUE, ProductMeta(71, 4012, TRUE))>>),
          <<>>, <<>>),
      RawProduct(2, <<"Mug">>,
          VariantList(<<RawVariant(21, 201, "One Size", 0, TRUE, FALSE,
                                   ProductMeta(72, 4021, TRUE))>>),
          <<>>, <<>>),
      RawProduct(3, <<"Cap">>,
          VariantList(<<RawVariant(31, 301, "One Size", 1500, FALSE, FALSE, <<>>)>>),
          <<>>, <<>>),
      RawProduct(4, <<"Poster">>, VariantCount(0), <<>>, <<>>),
      RawProduct(5, <<"Hoodie">>, VariantCount(2),
          << <<RawVariant(51, 501, "S", 4000, TRUE, TRUE, <<>>),
               RawVariant(52, 502, "S", 4000, FALSE, TRUE, <<>>)>> >>, <<>>),
      RawProduct(6, <<"Bag">>, VariantCount(2), <<>>, <<>>),
      RawProduct(7, <<"Socks">>, VariantCount(1), << <<>> >>,
          << <<RawVariant(73, 703, "L", 900, TRUE, FALSE, ProductMeta(77, 4073, FALSE))>> >>),
      RawProduct(8, <<>>, VariantList(<<>>), <<>>, <<>>),
      RawProduct(9, <<"Scarf">>,
          VariantList(<<RawVariant(91, 901, "One Size", 1200, TRUE, FALSE,
                                   ProductMeta(79, NoId, FALSE)),
                        RawVariant(92, 902, "Wide", 1200, TRUE, TRUE, <<>>)>>),
          <<>>, <<>>) }

\* The provider's answers to the catalog request: a failure, or up to two
\* raw products.
RawResponses ==
    {[raised |-> TRUE, result |-> <<>>]}
    \cup {[raised |-> FALSE, result |-> <<>>]}
    \cup {[raised |-> FALSE, result |-> <<p>>] : p \in RawProducts}
    \cup {[raised |-> FALSE, result |-> <<p, q>>] : p \in RawProducts, q \in RawProducts}

\* The shop starting on a provider whose raw answer is any of these.
InitFetch ==
    /\ upstream \in RawResponses
    /\ products_cache = <<>>
    /\ session = [s \in Sessions |-> EmptySession]
    /\ inflight = [s \in Sessions |-> <<>>]
    /\ stripe_keys = [secret_key |-> TRUE, publishable_key |-> TRUE]
    /\ stripe_sessions = <<>>
    /\ orders = <<>>
    /\ resp = Idle
    /\ recon = NoCall

\* GET /api/products, the provider's answer being normalized product by
\* product.
list_products ==
    /\ products_cache' = LazyCache(products_cache, FetchProducts(upstream))
    /\ resp' = [Response("get_products", 0, 200, "",
                         IF products_cache = <<>> THEN <<"get_products">> ELSE <<>>)
                  EXCEPT !.details =
                      IF products_cache = <<>> /\ ~upstream.raised
                      THEN [i \in 1..Len(upstream.result) |->
                               convert_printful_to_product(upstream.result[i])]
                      ELSE <<>>,
                         !.order = LazyCache(products_cache, FetchProducts(upstream))]
    /\ UNCHANGED <<recon, upstream, session, inflight, stripe_keys, stripe_sessions, orders>>

NextFetch == list_products

SpecFetch == InitFetch /\ [][NextFetch]_vars

\* --------------------------------------------------------- charged amounts
\* One client checking out entries at the catalog price or at a captured
\* price of 0.054 USD, one or two units of each.
ChargeItems == CartItems({1}, {"S"}, Quantities, PriceChoices)

NextCharge ==
    \/ add_to_cart(1, ChargeItems)
    \/ remove_from_cart(1)
    \/ create_checkout_session(1, CheckoutRates, CheckoutQuotes)

SpecCharge == InitEstimate /\ [][NextCharge]_vars

\* ------------------------------------------------------------------ claims
Range(seq) == {seq[i] : i \in 1..Len(seq)}

\* The provider accepted an order for payment session S of client s: a
\* complete-checkout call with S has succeeded in that client's session.
Succeeded(s, S) ==
    \E i \in 1..Len(orders) : orders[i].checkout_session_id = S /\ orders[i].client = s

\* The summary stored for payment session S when its order was accepted.
StoredSummary(S) ==
    orders[CHOOSE i \in 1..Len(orders) : orders[i].checkout_session_id = S].summary

\* This step answered a complete-checkout request of client s for session S.
AnswersComplete(s, S) ==
    /\ resp'.op = "complete_checkout"
    /\ resp'.session = s
    /\ resp'.checkout_session_id = S

\* C1: once complete-checkout for payment session S has succeeded in a
\* session, every later complete-checkout call with S in that session
\* answers 200 with the stored summary, creates no order at the provider
\* and retrieves no payment session.
C1_Idempotent ==
    [][ \A S \in 1..MaxPay :
          (Succeeded(1, S) /\ stripe_keys.secret_key /\ AnswersComplete(1, S))
          => /\ resp'.status = 200
             /\ resp'.summary = <<StoredSummary(S)>>
             /\ resp'.calls = <<>>
             /\ orders' = orders ]_vars

\* C1: a repeated call was answered from the stored record.
C1_Witness ==
    /\ resp.op = "complete_checkout"
    /\ resp.detail = "Order already fulfilled"
    /\ Succeeded(1, resp.checkout_session_id)
    /\ resp.summary = <<StoredSummary(resp.checkout_session_id)>>

\* C2: complete-checkout sends the stored payload to the provider only
\* after retrieving the payment session in the same request and finding it
\* "paid"; when the retrieved status is anything else the call fails with
\* 400 "Payment not completed", no order-creation call is made, and the
\* cart and the pending order record are left as they were.
C2_PaymentBeforeFulfillment ==
    [][ \A S \in 1..MaxPay :
          AnswersComplete(1, S)
          => /\ ("create_order" \in Range(resp'.calls)
                 => /\ resp'.calls = <<"stripe_retrieve", "create_order">>
                    /\ stripe_sessions[S].payment_status = "paid")
             /\ (orders' # orders => "create_order" \in Range(resp'.calls))
             /\ (/\ stripe_keys.secret_key
                 /\ Matches(session[1].pending_order, S)
                 /\ ~session[1].pending_order[1].fulfilled
                 /\ stripe_sessions[S].payment_status # "paid"
                 /\ resp'.detail # "Invalid checkout session"
                 => /\ resp'.status = 400
                    /\ resp'.detail = "Payment not completed"
                    /\ resp'.calls = <<"stripe_retrieve">>
                    /\ session' = session
                    /\ orders' = orders) ]_vars

\* C2: an unpaid session was refused while its pending order stayed stored.
C2_Witness ==
    /\ resp.op = "complete_checkout"
    /\ resp.detail = "Payment not completed"
    /\ Matches(session[1].pending_order, resp.checkout_session_id)
    /\ session[1].cart # <<>>
    /\ orders = <<>>

\* C3: of two complete-checkout requests carrying the same session state
\* and the same paid payment-session id, only one creates an order: the
\* provider never holds two orders for one payment session.
C3_AtMostOnce ==
    \A S \in 1..MaxPay :
        Cardinality({i \in 1..Len(orders) : orders[i].checkout_session_id = S}) <= 1

\* C3: a request in flight was answered after the order of its session
\* had been accepted.
C3_Witness ==
    /\ resp.op = "complete_checkout"
    /\ resp.status = 200
    /\ inflight[1] = <<>>
    /\ Len(orders) = 2
    /\ orders[1].checkout_session_id = orders[2].checkout_session_id

\* C4: once create-checkout-session has stored a pending order for payment
\* session S, a complete-checkout call with S finds the record after any
\* later operations of the session: it never fails with "No matching
\* pending order found".
C4_PendingKept ==
    [][ \A S \in 1..Len(stripe_sessions) :
          (stripe_keys.secret_key /\ AnswersComplete(stripe_sessions[S].client, S))
          => resp'.detail # "No matching pending order found" ]_vars

\* C4: a second checkout session was created while the first one's pending
\* order was still unfulfilled.
C4_Witness ==
    /\ Len(stripe_sessions) = 2
    /\ orders = <<>>
    /\ resp.op = "complete_checkout"
    /\ resp.checkout_session_id = 1
    /\ resp.detail = "No matching pending order found"

Estimated == resp.op = "estimate_costs" /\ resp.status = 200

\* The provider answers the cost-estimate request with a usable cost block.
UsableQuote(quote) == ~quote.raised /\ DOMAIN quote.costs # {}

\* C7: whenever the provider answers the cost-estimate request with a usable
\* cost block, the breakdown carries the provider's subtotal, shipping, tax
\* and total, the tax note "Printful" and cost source "printful"; cost
\* source is "estimated" only when the request failed or gave no cost block.
C7_Reconciled ==
    Estimated
    => /\ (UsableQuote(resp.details[1].quote)
           => /\ resp.details[1].cost_source = "printful"
              /\ resp.details[1].tax_note = "Printful"
              /\ resp.details[1].subtotal = resp.details[1].quote.costs.subtotal
              /\ resp.details[1].shipping_cost = resp.details[1].quote.costs.shipping
              /\ resp.details[1].tax_amount = resp.details[1].quote.costs.tax
              /\ resp.details[1].total = resp.details[1].quote.costs.total)
       /\ (resp.details[1].cost_source = "estimated"
           => ~UsableQuote(resp.details[1].quote))

\* C7: a breakdown was returned although the provider had a usable quote.
C7_Witness ==
    /\ Estimated
    /\ UsableQuote(resp.details[1].quote)
    /\ resp.details[1].cost_source = "estimated"
    /\ resp.calls = <<"shipping_rates">>

\* The unit price the resolver takes for a cart item, in mills.
ListedPrice(cart_item) ==
    IF cart_item.variant_price # <<>> THEN cart_item.variant_price[1]
    ELSE FindProduct(products_cache, cart_item.product_id)[1].price

\* The cart items of a breakdown that went into the order, in order.
IncludedItems(d) == SelectSeqBy(d.cart, d.included)

\* sum of unit_price * quantity over the included items, in micro-dollars
RawSubtotal(d) ==
    SumSeq([i \in 1..Len(IncludedItems(d)) |->
               ListedPrice(IncludedItems(d)[i]) * IncludedItems(d)[i].quantity * MicroPerMill])

\* The shipping cost the shipping step chose for the provider's answer.
ChosenShipping(rates_response) ==
    IF rates_response.raised \/ rates_response.result = <<>> THEN FallbackShipping
    ELSE rates_response.result[1].rate

\* A handler that calls compute_order_details fails only on the cart.
OnlyCartErrors ==
    (resp.op = "estimate_costs" /\ resp.status # 200)
    => (resp.status = 400 /\ resp.detail \in {"Cart is empty", "No valid items in cart"})

\* The breakdown d is the local one, with `total` as its total.
LocalBreakdown(d, total) ==
    /\ d.subtotal = RoundDiv(RawSubtotal(d), MicroPerCent)
    /\ d.shipping_cost = ChosenShipping(d.rates_response)
    /\ d.tax_amount = RoundDiv((RawSubtotal(d) \div MicroPerMill) * TaxRatePerMille,
                               MicroPerCent)
    /\ d.tax_note = "Estimated"
    /\ d.total = total
    /\ d.cost_source = "estimated"
    /\ Len(d.cart_entries) = Len(IncludedItems(d))
    /\ \A k \in 1..Len(d.cart_entries) :
           /\ d.cart_entries[k].unit_price = RoundDiv(ListedPrice(IncludedItems(d)[k]), 10)
           /\ d.cart_entries[k].quantity = IncludedItems(d)[k].quantity

\* C8 (as amended): when the cost-estimate request fails or returns no cost
\* block, the breakdown is the local one: subtotal, shipping and tax each
\* rounded, the total the rounding of the un-rounded sum
\* subtotal + shipping + tax, cost source "estimated", unit prices not
\* rescaled; and the handler fails only on the cart.
C8_LocalEstimate ==
    /\ OnlyCartErrors
    /\ (Estimated /\ ~UsableQuote(resp.details[1].quote))
       => LocalBreakdown(resp.details[1],
              RoundDiv(RawSubtotal(resp.details[1])
                       + resp.details[1].shipping_cost * MicroPerCent
                       + (RawSubtotal(resp.details[1]) \div MicroPerMill) * TaxRatePerMille,
                       MicroPerCent))

\* C8 (as stated): the same, with the total equal to the rounding of the
\* sum of the returned subtotal, shipping and tax.
C8_AsStated ==
    (Estimated /\ ~UsableQuote(resp.details[1].quote))
    => LocalBreakdown(resp.details[1],
           resp.details[1].subtotal + resp.details[1].shipping_cost
           + resp.details[1].tax_amount)

\* C8: the estimate request failed and a breakdown of two lines came back.
C8_Witness ==
    /\ Estimated
    /\ resp.details[1].quote.raised
    /\ Len(resp.details[1].cart_entries) = 2
    /\ resp.details[1].cost_source = "estimated"

\* C9: when the shipping-rate request raises or returns no rate, the
\* shipping cost is 9.99, the note marks a fallback estimate, no shipping
\* method is selected and the breakdown is still returned; when it returns
\* rates, the first one is selected and its rate is the shipping cost.
C9_ShippingFallback ==
    /\ (resp.op = "estimate_costs" /\ resp.status # 200)
       => resp.detail \in {"Cart is empty", "No valid items in cart"}
    /\ Estimated
       => IF resp.details[1].rates_response.raised
             \/ resp.details[1].rates_response.result = <<>>
          THEN /\ resp.details[1].shipping_cost = FallbackShipping
               /\ resp.details[1].shipping_note = <<"Fallback estimate">>
               /\ resp.details[1].shipping_method_id = <<>>
               /\ resp.details[1].selected_shipping_rate = <<>>
          ELSE /\ resp.details[1].selected_shipping_rate
                  = <<resp.details[1].rates_response.result[1]>>
               /\ resp.details[1].shipping_cost
                  = resp.details[1].rates_response.result[1].rate
               /\ resp.details[1].shipping_method_id
                  = <<resp.details[1].rates_response.result[1].id>>

\* C9: the shipping-rate request raised and the breakdown came back with
\* the fallback.
C9_Witness ==
    /\ Estimated
    /\ resp.details[1].rates_response.raised
    /\ resp.details[1].shipping_cost = FallbackShipping
    /\ resp.details[1].total > FallbackShipping

\* C10: a cart entry that matches no variant of its product contributes no
\* item to the provider order and no line to the entries, while the other
\* entries of the cart are still resolved.
C10_UnresolvableDropped ==
    Estimated
    => \A i \in 1..Len(resp.details[1].cart) :
           ~resp.details[1].matched[i] => ~resp.details[1].included[i]

\* C10: an entry that matched no variant went into the provider order.
C10_Witness ==
    /\ Estimated
    /\ \E i \in 1..Len(resp.details[1].cart) :
           /\ ~resp.details[1].matched[i]
           /\ resp.details[1].included[i]
           /\ FindProduct(products_cache, resp.details[1].cart[i].product_id) # <<>>

\* Every item of a provider order payload carries an identifier.
ItemsIdentified(items) ==
    \A k \in 1..Len(items) : items[k].sync_variant_id # NoId \/ items[k].variant_id # NoId

\* The number of cart entries holding an identifier.
Identified(cart) == Cardinality({i \in 1..Len(cart) : HasIdentifier(cart[i])})

\* C11: in the order payload create-checkout-session stores and in the one
\* the direct create-order endpoint submits, every item carries a
\* sync-variant id or a variant id and an entry holding neither contributes
\* no item; when no item is left the operation fails with 400 and calls
\* neither the payment processor nor the provider's order creation.
C11_PayloadInvariant ==
    /\ (resp.op = "create_checkout_session" /\ resp.status = 200)
       => /\ ItemsIdentified(session[1].pending_order[1].printful_order[1].items)
          /\ Len(session[1].pending_order[1].printful_order[1].items) >= 1
          /\ Len(session[1].pending_order[1].printful_order[1].items)
             <= Identified(resp.details[1].cart)
          /\ \A i \in 1..Len(resp.details[1].cart) :
                 ~HasIdentifier(resp.details[1].cart[i]) => ~resp.details[1].included[i]
    /\ (resp.op = "create_checkout_session" /\ resp.detail = "No valid items in cart")
       => /\ resp.status = 400
          /\ resp.calls \in {<<>>, <<"get_products">>}
    /\ (resp.op = "create_order" /\ "create_order" \in Range(resp.calls))
       => Identified(resp.details[1].cart) >= 1
    /\ (resp.op = "create_order" /\ resp.status = 200)
       => /\ ItemsIdentified(resp.order[1].items)
          /\ Len(resp.order[1].items) = Identified(resp.details[1].cart)
    /\ (resp.op = "create_order" /\ resp.details[1].cart # <<>>
        /\ Identified(resp.details[1].cart) = 0)
       => /\ resp.status = 400
          /\ resp.detail = "No valid items in cart"
          /\ resp.calls = <<>>

\* C11: the direct endpoint submitted an order for a cart one of whose
\* entries held neither identifier.
C11_Witness ==
    /\ resp.op = "create_order"
    /\ resp.status = 200
    /\ Len(resp.details[1].cart) = 2
    /\ Len(resp.order[1].items) = 1
    /\ \E i \in 1..2 : ~HasIdentifier(resp.details[1].cart[i])

\* C12: a complete-checkout that succeeds in submitting the order leaves the
\* cart empty and the pending record fulfilled, with the payment-session id
\* and the summary it had before, and records the id of the order the
\* provider accepted in that request.
C12_CompletionEffect ==
    [][(resp'.op = "complete_checkout" /\ resp'.detail = "Order fulfilled successfully")
       => /\ session[1].pending_order # <<>>
          /\ session'[1].cart = <<>>
          /\ session'[1].pending_order # <<>>
          /\ session'[1].pending_order[1].fulfilled
          /\ session'[1].pending_order[1].checkout_session_id
               = session[1].pending_order[1].checkout_session_id
          /\ session'[1].pending_order[1].checkout_session_id = resp'.checkout_session_id
          /\ session'[1].pending_order[1].summary = session[1].pending_order[1].summary
          /\ resp'.summary = <<session[1].pending_order[1].summary>>
          /\ Len(orders') = Len(orders) + 1
          /\ session'[1].pending_order[1].order_id = Len(orders')
          /\ orders'[Len(orders')].checkout_session_id = resp'.checkout_session_id]_vars

\* C12: the provider just accepted the pending order as its order 1.
C12_Witness ==
    /\ resp.op = "complete_checkout"
    /\ resp.detail = "Order fulfilled successfully"
    /\ session[1].cart = <<>>
    /\ session[1].pending_order[1].fulfilled
    /\ session[1].pending_order[1].order_id = 1
    /\ resp.order # <<>>

\* C13: when the provider rejects the order submission of complete-checkout
\* the request fails with 400 and the design-files message exactly when the
\* provider's error mentions print files and with 500 otherwise; the cart
\* and the pending order (unfulfilled, payload included) are left as they
\* were, no order is accepted, and the request submits exactly once.
C13_FulfillmentFailure ==
    [][(resp'.op = "complete_checkout" /\ resp'.error # "")
       => /\ resp'.error \in {"no print files", "rejected"}
          /\ (resp'.error = "no print files")
             <=> (resp'.status = 400 /\ resp'.detail = "Design files are not configured")
          /\ (resp'.error # "no print files")
             <=> (resp'.status = 500 /\ resp'.detail = "Failed to create Printful order")
          /\ session' = session
          /\ session[1].pending_order # <<>>
          /\ ~session'[1].pending_order[1].fulfilled
          /\ session'[1].pending_order[1].printful_order # <<>>
          /\ orders' = orders
          /\ resp'.calls = <<"stripe_retrieve", "create_order">>]_vars

\* C13: the provider rejected the submission for missing print files while
\* the client's cart still held an item.
C13_Witness ==
    /\ resp.op = "complete_checkout"
    /\ resp.error = "no print files"
    /\ resp.status = 400
    /\ session[1].cart # <<>>
    /\ ~session[1].pending_order[1].fulfilled

\* The request opened checkout session number Len(stripe_sessions) + 1.
SessionOpened == Len(stripe_sessions') = Len(stripe_sessions) + 1

\* The session holds a fresh pending order for the checkout session opened.
PendingWritten ==
    /\ session'[1].pending_order # <<>>
    /\ session'[1].pending_order[1].checkout_session_id = Len(stripe_sessions) + 1
    /\ session'[1].pending_order[1].printful_order # <<>>
    /\ session'[1].pending_order[1].printful_order[1].items # <<>>
    /\ session'[1].pending_order[1].summary
         = session'[1].pending_order[1].printful_order[1].retail_costs
    /\ ~session'[1].pending_order[1].fulfilled

\* C14: create-checkout-session writes a pending order (payment-session id,
\* payload, summary, fulfilled = false) exactly when the processor opened a
\* checkout session in that request; a request that fails (credentials,
\* empty cart, no valid items, no priced items, processor error) leaves the
\* pending order as it was, opens nothing and returns no session id.
C14_PendingOrderCreation ==
    [][(resp'.op = "create_checkout_session")
       => /\ SessionOpened <=> PendingWritten
          /\ SessionOpened <=> resp'.status = 200
          /\ SessionOpened => resp'.checkout_session_id = Len(stripe_sessions')
          /\ ~SessionOpened
             => /\ stripe_sessions' = stripe_sessions
                /\ session'[1].pending_order = session[1].pending_order
                /\ resp'.checkout_session_id = NoId
                /\ resp'.detail \in {"Stripe credentials are not configured", "Cart is empty",
                                     "No valid items in cart",
                                     "Unable to create checkout session without priced items",
                                     "Stripe error"}]_vars

\* C14: the processor refused to open a second checkout session and the
\* pending order of the first is still in the session.
C14_Witness ==
    /\ resp.op = "create_checkout_session"
    /\ resp.detail = "Stripe error"
    /\ session[1].pending_order # <<>>
    /\ session[1].pending_order[1].checkout_session_id = 1
    /\ Len(stripe_sessions) = 1

\* Every reallocated cart line of the order details has an amount <= 0.
NoPricedLine(d) == \A k \in 1..Len(d.cart_entries) : d.cart_entries[k].unit_price <= 0

\* C15: create-checkout-session fails with 400 (no priced items) whenever
\* every reallocated cart line has an amount <= 0, whatever the shipping
\* cost and the tax amount are, and opens no payment session then.
C15_NoPriceableItems ==
    [][(resp'.op = "create_checkout_session" /\ resp'.details # <<>>
        /\ NoPricedLine(resp'.details[1]))
       => /\ resp'.status = 400
          /\ resp'.detail = "Unable to create checkout session without priced items"
          /\ stripe_sessions' = stripe_sessions]_vars

\* C15: a checkout session was opened for a cart none of whose lines has a
\* positive amount; it charges the shipping cost alone.
C15_Witness ==
    /\ resp.op = "create_checkout_session"
    /\ resp.status = 200
    /\ NoPricedLine(resp.details[1])
    /\ resp.details[1].shipping_cost > 0
    /\ LineItems(resp.details[1]) = <<[name |-> "Shipping",
                                       unit_amount |-> resp.details[1].shipping_cost,
                                       quantity |-> 1]>>
    /\ Len(stripe_sessions) = 1

\* No entry of client 1's cart resolves to a provider item on the catalog
\* the request works with.
NoneResolves ==
    \A i \in 1..Len(session[1].cart) :
        ~ResolveItem(products_cache', session[1].cart[i]).included

\* C16: compute_order_details fails with 400 when the cart is empty or no
\* cart entry resolves to a provider item (and only then), and a failed
\* call issues neither a shipping-rate nor a cost-estimate request.
C16_EmptyCart ==
    [][(resp'.op = "estimate_costs")
       => /\ (session[1].cart = <<>> \/ NoneResolves) <=> resp'.status = 400
          /\ resp'.status \in {200, 400}
          /\ resp'.status = 400
             => /\ resp'.detail = IF session[1].cart = <<>> THEN "Cart is empty"
                                  ELSE "No valid items in cart"
                /\ "shipping_rates" \notin Range(resp'.calls)
                /\ "estimate_costs" \notin Range(resp'.calls)
          /\ resp'.status = 200 => "shipping_rates" \in Range(resp'.calls)]_vars

\* C16: an estimate failed on a cart that holds an entry, none resolving.
C16_Witness ==
    /\ resp.op = "estimate_costs"
    /\ resp.status = 400
    /\ resp.detail = "No valid items in cart"
    /\ session[1].cart # <<>>
    /\ "shipping_rates" \notin Range(resp.calls)

\* C17: a request of one client never changes the cart or the pending order
\* another client's session holds, and a complete-checkout naming the
\* payment session of another client's pending order answers 404 without
\* asking the processor or the provider for anything.
C17_SessionScoping ==
    [][/\ \A b \in Sessions : resp'.session # b => session'[b] = session[b]
       /\ \A b \in Sessions :
              (/\ resp'.op = "complete_checkout"
               /\ resp'.session # b
               /\ Matches(session[b].pending_order, resp'.checkout_session_id))
              => /\ resp'.status = 404
                 /\ resp'.detail = "No matching pending order found"
                 /\ resp'.calls = <<>>
                 /\ orders' = orders
                 /\ session' = session]_vars

\* C17: client 1, holding an unfulfilled pending order of its own, asked to
\* complete the paid checkout session of client 2's pending order and was
\* refused.
C17_Witness ==
    /\ resp.op = "complete_checkout"
    /\ resp.session = 1
    /\ resp.status = 404
    /\ session[1].pending_order # <<>>
    /\ ~session[1].pending_order[1].fulfilled
    /\ Matches(session[2].pending_order, resp.checkout_session_id)
    /\ stripe_sessions[resp.checkout_session_id].payment_status = "paid"
    /\ session[2].cart # <<>>

\* The products of the catalog an add request worked with that have the
\* requested product id.
Requested == {p \in Range(products_cache') : p.id = resp'.details[1].product_id}

\* The variants named by the requested size, in a product.
Named(p) == {v \in Range(p.variants) : v.name = resp'.details[1].size}

\* C18: an add request fails with 404 when the product is not in the
\* catalog, with 400 when the size is not a size label of the product, and
\* with 400 when the size resolves to no variant identifier, the cart
\* unchanged in all three; otherwise it appends one entry, holding the
\* identifiers of the variant named by the size, behind the entries the
\* cart had, which stay as they were.
C18_AddToCart ==
    [][(resp'.op = "add_to_cart")
       => /\ (Requested = {})
             => (resp'.status = 404 /\ resp'.detail = "Product not found")
          /\ (\E p \in Requested : resp'.details[1].size \notin Range(p.sizes))
             => (resp'.status = 400 /\ resp'.detail = "Size not available")
          /\ (\E p \in Requested :
                 /\ resp'.details[1].size \in Range(p.sizes)
                 /\ \A v \in Named(p) : v.variant_id = NoId /\ v.id = NoId)
             => (resp'.status = 400 /\ resp'.detail = "Selected variant is unavailable")
          /\ resp'.status \in {404, 400, 200}
          /\ resp'.status # 200 => session' = session
          /\ resp'.status = 200
             => /\ Len(session'[1].cart) = Len(session[1].cart) + 1
                /\ SubSeq(session'[1].cart, 1, Len(session[1].cart)) = session[1].cart
                /\ session'[1].pending_order = session[1].pending_order
                /\ session'[1].cart[Len(session'[1].cart)].product_id
                     = resp'.details[1].product_id
                /\ session'[1].cart[Len(session'[1].cart)].size = resp'.details[1].size
                /\ session'[1].cart[Len(session'[1].cart)].quantity
                     = resp'.details[1].quantity
                /\ session'[1].cart[Len(session'[1].cart)].variant_id # NoId
                /\ \E p \in Requested : \E v \in Named(p) :
                       /\ session'[1].cart[Len(session'[1].cart)].sync_variant_id = v.id
                       /\ session'[1].cart[Len(session'[1].cart)].variant_id
                            = (IF v.variant_id # NoId THEN v.variant_id ELSE v.id)]_vars

\* C18: an entry of product 2 was added behind an entry of product 1.
C18_Witness ==
    /\ resp.op = "add_to_cart"
    /\ resp.status = 200
    /\ Len(session[1].cart) = 2
    /\ session[1].cart[1].product_id = 1
    /\ session[1].cart[2].product_id = 2
    /\ session[1].cart[2].sync_variant_id = 21
    /\ session[1].cart[2].variant_id = 21

\* The order details of the last request, when it computed some.
Computed ==
    /\ resp.op \in {"estimate_costs", "create_checkout_session"}
    /\ resp.details # <<>>
    /\ resp.details[1].status = 200

\* Entry i of the cart has on its provider order item, its shipping-rate
\* item and its payment line item the quantity the cart stores (every entry
\* of the carts considered resolves and has a positive price).
SameQuantity(d, i) ==
    /\ d.printful_items[i].quantity = d.cart[i].quantity
    /\ d.shipping_items[i].quantity = d.cart[i].quantity
    /\ EntryLineItems(d.cart_entries)[i].quantity = d.cart[i].quantity

\* C19: every entry of every cart has a quantity >= 1, and the provider
\* order item, the shipping-rate item and the payment line item of an entry
\* carry the quantity stored in the entry.
C19_PositiveQuantities ==
    /\ \A s \in Sessions : \A i \in 1..Len(session[s].cart) :
           session[s].cart[i].quantity >= 1
    /\ Computed
       => /\ Len(resp.details[1].printful_items) = Len(resp.details[1].cart)
          /\ Len(resp.details[1].shipping_items) = Len(resp.details[1].cart)
          /\ Len(EntryLineItems(resp.details[1].cart_entries)) = Len(resp.details[1].cart)
          /\ \A i \in 1..Len(resp.details[1].cart) : SameQuantity(resp.details[1], i)

\* C19: a checkout session was opened for a cart entry of quantity 0; the
\* provider order item and the payment line item carry quantity 1, the
\* shipping-rate item quantity 0.
C19_Witness ==
    /\ resp.op = "create_checkout_session"
    /\ resp.status = 200
    /\ Len(session[1].cart) = 1
    /\ session[1].cart[1].quantity = 0
    /\ session[1].pending_order[1].printful_order[1].items[1].quantity = 1
    /\ resp.details[1].shipping_items[1].quantity = 0
    /\ LineItems(resp.details[1])[1].quantity = 1

\* C20: a remove request with an index i, 0 <= i < len(cart), deletes the
\* entry at position i and keeps the others in their order; with any other
\* index it fails with 404 and leaves the cart as it was.
C20_RemoveByIndex ==
    [][(resp'.op = "remove_from_cart")
       => IF 0 <= resp'.details[1] /\ resp'.details[1] < Len(session[1].cart)
          THEN /\ resp'.status = 200
               /\ Len(session'[1].cart) = Len(session[1].cart) - 1
               /\ \A k \in 1..Len(session'[1].cart) :
                      session'[1].cart[k] = IF k <= resp'.details[1]
                                            THEN session[1].cart[k]
                                            ELSE session[1].cart[k + 1]
               /\ session'[1].pending_order = session[1].pending_order
          ELSE /\ resp'.status = 404
               /\ resp'.detail = "Cart item not found"
               /\ session' = session]_vars

\* C20: the first of three different entries was removed; the two others
\* are left in their order.
C20_Witness ==
    /\ resp.op = "remove_from_cart"
    /\ resp.status = 200
    /\ resp.details = <<0>>
    /\ Len(session[1].cart) = 2
    /\ session[1].cart[1].size = "M" /\ session[1].cart[1].quantity = 1
    /\ session[1].cart[2].size = "S" /\ session[1].cart[2].quantity = 2

\* The operations that read the catalog cache without being a sync.
CatalogReaders ==
    {"get_products", "get_product", "add_to_cart", "get_cart", "remove_from_cart",
     "estimate_costs", "create_checkout_session"}

\* C21: once the catalog cache holds a product, no list, get-product, cart,
\* estimate or checkout operation fetches the catalog or changes the cache;
\* the cache changes only in a sync or in an access that finds it empty.  A
\* sync whose upstream sync command fails answers an error and leaves the
\* cache as it was; a sync that succeeds replaces the cache by the result
\* of a fresh fetch.
C21_CacheLifecycle ==
    [][/\ (resp'.op \in CatalogReaders /\ products_cache # <<>>)
          => /\ products_cache' = products_cache
             /\ "get_products" \notin Range(resp'.calls)
       /\ (products_cache' # products_cache)
          => (resp'.op = "sync_products" \/ products_cache = <<>>)
       /\ (resp'.op = "sync_products" /\ resp'.status # 200)
          => /\ resp'.status = 500
             /\ products_cache' = products_cache
             /\ resp'.calls = <<"sync_products">>
       /\ (resp'.op = "sync_products" /\ resp'.status = 200)
          => /\ resp'.calls = <<"sync_products", "get_products">>
             /\ products_cache' \in {upstream, <<>>}]_vars

\* C21: a sync replaced a populated cache by the store as it is now.
C21_Witness ==
    /\ resp.op = "sync_products"
    /\ resp.status = 200
    /\ products_cache = CatalogB
    /\ upstream = CatalogB
    /\ session[1].cart # <<>>
    /\ session[1].cart[1].product_id = 2

\* The least element of a non-empty set of indices.
Least(S) == CHOOSE k \in S : \A j \in S : k <= j

\* The variants of vs a cart entry e selects by sync id, by variant id (the
\* variant's sync id standing in when it has no variant id), and by name.
SameSyncId(vs, e) ==
    IF e.sync_variant_id = NoId THEN {}
    ELSE {k \in 1..Len(vs) : vs[k].id = e.sync_variant_id}

SameVariantId(vs, e) ==
    IF e.variant_id = NoId THEN {}
    ELSE {k \in 1..Len(vs) :
             (IF vs[k].variant_id # NoId THEN vs[k].variant_id ELSE vs[k].id) = e.variant_id}

SameName(vs, e) == {k \in 1..Len(vs) : vs[k].name = e.size}

\* The variant the precedence rule selects for e (0: none).
Preferred(vs, e) ==
    IF SameSyncId(vs, e) # {} THEN Least(SameSyncId(vs, e))
    ELSE IF SameVariantId(vs, e) # {} THEN Least(SameVariantId(vs, e))
    ELSE IF SameName(vs, e) # {} THEN Least(SameName(vs, e))
    ELSE 0

\* Entry e, resolved on the variants vs, became e2: it holds the
\* identifiers of the preferred variant, or is unchanged when there is none.
ResolvedTo(vs, e, e2) ==
    IF Preferred(vs, e) = 0 THEN e2 = e
    ELSE /\ e2.sync_variant_id = vs[Preferred(vs, e)].id
         /\ e2.variant_id = (IF vs[Preferred(vs, e)].variant_id # NoId
                             THEN vs[Preferred(vs, e)].variant_id
                             ELSE vs[Preferred(vs, e)].id)

\* C22: for a cart entry whose product is in the catalog the matched
\* variant is the first one with the entry's sync id, else the first one
\* with the entry's variant id, else the first one named as the entry's
\* size; the entry takes over the identifiers of that variant.
C22_ResolverPrecedence ==
    [][(resp'.op = "estimate_costs")
       => /\ Len(session'[1].cart) = Len(session[1].cart)
          /\ \A i \in 1..Len(session[1].cart) :
                 \A p \in Range(products_cache') :
                     p.id = session[1].cart[i].product_id
                     => ResolvedTo(p.variants, session[1].cart[i], session'[1].cart[i])]_vars

\* C22: an entry holding sync id 11, variant id 101 and size "S" was
\* resolved on CatalogD, where these three select three different
\* variants, to the variant with sync id 11.
C22_Witness ==
    /\ resp.op = "estimate_costs"
    /\ products_cache = CatalogD
    /\ session[1].cart # <<>>
    /\ session[1].cart[1].size = "S"
    /\ session[1].cart[1].sync_variant_id = 11
    /\ session[1].cart[1].variant_id = 102

\* The unit price (mills) the rule of C23 gives entry e of product p: the
\* captured price when present and positive, else the catalog price.
RulePrice(e, p) ==
    IF e.variant_price # <<>> /\ e.variant_price[1] > 0 THEN e.variant_price[1]
    ELSE p.price

\* The subtotal (micro-dollars) of a cart of product 1 under that rule.
RuleSubtotal(cart, p) ==
    SumSeq([i \in 1..Len(cart) |-> RulePrice(cart[i], p) * cart[i].quantity * MicroPerMill])

\* C23: the unit price of a resolved entry, in the subtotal and in its
\* per-line entry, is the captured price when that is present and positive
\* and the product's catalog price otherwise (absent, zero or negative).
C23_UnitPrice ==
    (resp.op = "estimate_costs" /\ resp.status = 200)
    => /\ Len(resp.details[1].cart_entries) = Len(resp.details[1].cart)
       /\ \A i \in 1..Len(resp.details[1].cart) :
              resp.details[1].cart_entries[i].unit_price
                = RoundDiv(RulePrice(resp.details[1].cart[i], products_cache[1]), 10)
       /\ resp.details[1].retail_subtotal
            = RoundDiv(RuleSubtotal(resp.details[1].cart, products_cache[1]), MicroPerCent)

\* C23: an estimate priced an entry captured at 0.00 at zero although the
\* catalog price of its product is 2.00.
C23_Witness ==
    /\ resp.op = "estimate_costs"
    /\ resp.status = 200
    /\ Len(resp.details[1].cart) = 1
    /\ resp.details[1].cart[1].variant_price = <<0>>
    /\ products_cache[1].price = 2000
    /\ resp.details[1].cart_entries[1].unit_price = 0
    /\ resp.details[1].retail_subtotal = 0

\* The shipping-rate items of exactly the entries that were placed in the
\* provider order payload, in cart order.
QuotedForIncluded(d) ==
    SelectSeqBy([i \in 1..Len(d.cart) |-> [ variant_id |-> d.cart[i].variant_id,
                                            quantity |-> d.cart[i].quantity,
                                            value |-> d.cart[i].variant_price ]],
                d.included)

\* C24: the items of the shipping-rate request correspond one to one, in
\* order and with equal quantities, to the items of the provider order
\* payload; an entry skipped from the payload is not quoted for shipping.
C24_ShippingCoversResolved ==
    (resp.op = "estimate_costs" /\ resp.status = 200)
    => /\ Len(resp.details[1].shipping_items) = Len(resp.details[1].printful_items)
       /\ resp.details[1].shipping_items = QuotedForIncluded(resp.details[1])
       /\ \A k \in 1..Len(resp.details[1].printful_items) :
              resp.details[1].shipping_items[k].quantity
                = resp.details[1].printful_items[k].quantity

\* C24: an estimate asked shipping rates for two items while the order
\* payload holds one: the second entry, whose product is not in the catalog
\* and which has no captured price, was skipped from the payload only.
C24_Witness ==
    /\ resp.op = "estimate_costs"
    /\ resp.status = 200
    /\ Len(resp.details[1].cart) = 2
    /\ resp.details[1].included = <<TRUE, FALSE>>
    /\ Len(resp.details[1].printful_items) = 1
    /\ Len(resp.details[1].shipping_items) = 2
    /\ resp.details[1].shipping_items[2].variant_id = resp.details[1].cart[2].variant_id

\* The raw products of the provider's answer whose conversion returned.
Converted == {i \in 1..Len(upstream.result) : ~resp.details[i].raised}

\* The position in the answer of the k-th raw product whose conversion
\* returned.
KthConverted(k) ==
    CHOOSE i \in Converted : Cardinality({j \in Converted : j <= i}) = k

\* C25: get_products_from_printful returns the normalized products of
\* exactly the raw products whose conversion did not raise, in upstream
\* order (a raising product is dropped, the others are kept), and the empty
\* list when the catalog request itself fails.
C25_FetchResilience ==
    (resp.op = "get_products" /\ "get_products" \in Range(resp.calls))
    => /\ resp.status = 200
       /\ upstream.raised => products_cache = <<>>
       /\ ~upstream.raised
          => /\ Len(resp.details) = Len(upstream.result)
             /\ Len(products_cache) = Cardinality(Converted)
             /\ \A k \in 1..Len(products_cache) :
                    products_cache[k] = resp.details[KthConverted(k)].product

\* C25: of two raw products the first was dropped because its conversion
\* raised and the second is the only product of the catalog.
C25_Witness ==
    /\ resp.op = "get_products"
    /\ Len(upstream.result) = 2
    /\ resp.details[1].raised
    /\ ~resp.details[2].raised
    /\ Len(products_cache) = 1
    /\ products_cache[1].name = upstream.result[2].name

\* C26: normalizing a raw product whose variants field is the integer 0
\* issues no variant-detail request and yields the single size "One Size",
\* in_stock = false, price = 0 and no price range.
C26_ZeroVariants ==
    (resp.op = "get_products" /\ "get_products" \in Range(resp.calls) /\ ~upstream.raised)
    => \A i \in 1..Len(upstream.result) :
           (upstream.result[i].variants.kind = "count"
            /\ upstream.result[i].variants.count = 0)
           => /\ resp.details[i].calls = <<>>
              /\ ~resp.details[i].raised
              /\ resp.details[i].product.sizes = <<"One Size">>
              /\ ~resp.details[i].product.in_stock
              /\ resp.details[i].product.price = 0
              /\ resp.details[i].product.price_range = <<>>
              /\ \E k \in 1..Len(products_cache) :
                     products_cache[k] = resp.details[i].product

\* C26: the catalog holds the product normalized from a raw product with
\* a variants count of 0, next to one whose variants were fetched.
C26_Witness ==
    /\ resp.op = "get_products"
    /\ Len(upstream.result) = 2
    /\ upstream.result[1].variants = VariantCount(2)
    /\ upstream.result[2].variants = VariantCount(0)
    /\ resp.details[1].calls # <<>>
    /\ resp.details[2].calls = <<>>
    /\ Len(products_cache) = 2
    /\ products_cache[2].sizes = <<"One Size">>
    /\ ~products_cache[2].in_stock

\* C28: every raw product with identifier P that is converted successfully
\* gives a catalog product whose id and provider product id equal P,
\* whatever its variants, their mockup files and their embedded
\* catalog-product metadata.
C28_ProductIdentity ==
    (resp.op = "get_products" /\ "get_products" \in Range(resp.calls) /\ ~upstream.raised)
    => \A i \in 1..Len(upstream.result) :
           ~resp.details[i].raised
           => /\ resp.details[i].product.id = upstream.result[i].id
              /\ resp.details[i].product.printful_product_id = upstream.result[i].id

\* C28: the raw product 2, whose only variant has no mockup file and
\* embeds the metadata of catalog product 72, is in the catalog under id 72.
C28_Witness ==
    /\ resp.op = "get_products"
    /\ Len(upstream.result) = 1
    /\ upstream.result[1].id = 2
    /\ ~resp.details[1].raised
    /\ Len(products_cache) = 1
    /\ products_cache[1].id = 72
    /\ products_cache[1].printful_product_id = 72

\* The amount (cents) a list of payment line items charges.
Charged(line_items) ==
    SumSeq([k \in 1..Len(line_items) |-> line_items[k].unit_amount * line_items[k].quantity])

\* C27: for every checkout session opened, the payment line items (cart
\* lines, shipping, tax) add up to the total stored in the pending order's
\* cost summary, and the cart line items alone to the stored subtotal.
C27_ChargedEqualsRecorded ==
    (resp.op = "create_checkout_session" /\ resp.status = 200)
    => /\ Charged(LineItems(resp.details[1])) = session[1].pending_order[1].summary.total
       /\ Charged(EntryLineItems(resp.details[1].cart_entries))
            = session[1].pending_order[1].summary.subtotal

\* C27: a checkout session charging 5.10 (two units at 0.05, shipping 4.99,
\* tax 0.01) was opened for a pending order recorded with subtotal 0.11 and
\* total 5.11.
C27_Witness ==
    /\ resp.op = "create_checkout_session"
    /\ resp.status = 200
    /\ Len(session[1].cart) = 1
    /\ session[1].cart[1].variant_price = <<54>>
    /\ session[1].cart[1].quantity = 2
    /\ Charged(EntryLineItems(resp.details[1].cart_entries)) = 10
    /\ Charged(LineItems(resp.details[1])) = 510
    /\ session[1].pending_order[1].summary.subtotal = 11
    /\ session[1].pending_order[1].summary.total = 511

\* C29: the entry shown at position i of the list-cart response is the
\* entry a remove request with index i deletes (the entry at position i of
\* the session's cart), also after a sync removed the product of a cart
\* entry from the catalog cache.
C29_ListingMatchesRemoval ==
    (resp.op = "get_cart")
    => \A i \in 1..Len(resp.details[1].enriched_cart) :
           resp.details[1].enriched_cart[i].entry = session[1].cart[i]

\* C29: after a sync dropped product 2 from the catalog, the cart listing
\* shows the entry of product 1 at its first position while the cart holds
\* the entry of product 2 there, which is what a remove of that position
\* deletes.
C29_Witness ==
    /\ resp.op = "get_cart"
    /\ products_cache = CatalogB
    /\ Len(session[1].cart) = 2
    /\ session[1].cart[1].product_id = 2
    /\ session[1].cart[2].product_id = 1
    /\ Len(resp.details[1].enriched_cart) = 1
    /\ resp.details[1].enriched_cart[1].entry = session[1].cart[2]
    /\ Pop(session[1].cart, 0) = <<session[1].cart[2]>>

\* A create-checkout-session request that opened a payment session.
SessionCreated == resp'.op = "create_checkout_session" /\ resp'.status = 200

\* A complete-checkout request that submitted an order to the provider.
OrderSubmitted ==
    resp'.op = "complete_checkout" /\ resp'.calls = <<"stripe_retrieve", "create_order">>

\* A complete-checkout request whose order the provider accepted.
OrderAccepted == resp'.op = "complete_checkout" /\ resp'.detail = "Order fulfilled successfully"

\* C30: the payload complete-checkout submits to the provider is the one
\* stored when the payment session it names was created: creation stores the
\* items, recipient, shipping method and retail costs it priced under the
\* new session's id, no add, remove or other request changes the stored
\* record until a new session replaces it or the order is accepted, and the
\* submission sends the stored payload as it is; an accepted submission
\* empties the cart whatever it holds.
C30_PaidOrderIsPricedOrder ==
    [][/\ SessionCreated
          => /\ session'[1].pending_order[1].checkout_session_id = resp'.checkout_session_id
             /\ session'[1].pending_order[1].printful_order[1].items
                  = resp'.details[1].printful_items
             /\ session'[1].pending_order[1].printful_order[1].recipient = Recipient
             /\ session'[1].pending_order[1].printful_order[1].retail_costs.total
                  = resp'.details[1].total
       /\ OrderSubmitted
          => /\ session[1].pending_order[1].checkout_session_id = resp'.checkout_session_id
             /\ resp'.order = session[1].pending_order[1].printful_order
       /\ OrderAccepted => session'[1].cart = <<>>
       /\ ~(SessionCreated \/ OrderAccepted)
          => session'[1].pending_order = session[1].pending_order]_vars

\* C30: the order of one item priced at session creation was submitted
\* after a second entry had been added to the cart: the payload holds the
\* one item while the cart, kept because the provider rejected the order,
\* holds two entries.
C30_Witness ==
    /\ resp.op = "complete_checkout"
    /\ resp.status = 500
    /\ resp.calls = <<"stripe_retrieve", "create_order">>
    /\ Len(session[1].cart) = 2
    /\ Len(resp.order[1].items) = 1
    /\ resp.order = session[1].pending_order[1].printful_order

====
